---- MODULE Spec2Model ----
(***************************************************************************)
(* Verification model of the humanization pipeline:                        *)
(*   stage3_parallel_processing (chunk units, merge, refinement loop,      *)
(*   orchestration service) and stage4_verification (detector service).    *)
(*                                                                         *)
(* Each component is a small state machine.  Init submits exactly one      *)
(* operation (one chunk unit, one merge, one verify_text call, ...) and    *)
(* leaves the other components idle, so the reachable states are the       *)
(* disjoint union of the components' behaviours.                           *)
(*                                                                         *)
(* Conventions                                                             *)
(*  - A Python string is represented by the two measures the code looks    *)
(*    at: its length and its number of non-whitespace characters.          *)
(*  - A probability is an integer number of hundredths (0..100); a mean    *)
(*    is kept as the exact fraction <<sum, count>>.                        *)
(*  - An exception is represented by its class name.                       *)
(***************************************************************************)
EXTENDS Integers, Sequences, FiniteSets, TLC

(***************************************************************************)
(* Strings                                                                 *)
(***************************************************************************)
Str(l, n) == [len |-> l, ns |-> n]

\* `not s`
IsEmpty(s) == s.len = 0

\* `not s or not s.strip()`
IsBlank(s) == s.len = 0 \/ s.ns = 0

Min(a, b) == IF a < b THEN a ELSE b

RECURSIVE Pow2(_)
Pow2(n) == IF n = 0 THEN 1 ELSE 2 * Pow2(n - 1)

(***************************************************************************)
(* Program constants                                                       *)
(***************************************************************************)
TaskMaxRetries == 3
TaskRetryBackoffMax == 600
TenacityAttempts == 3
OpenAIMaxTokens == 2000

(***************************************************************************)
(* CHUNK UNIT: humanize_chunk_task run by a worker, with the retry         *)
(* machinery of the task queue and the retry decorator of the API call.    *)
(***************************************************************************)
VARIABLES
    taskState,        \* "NONE" | "PENDING" | "STARTED" | "RETRY" | "SUCCESS" | "FAILURE"
    chunkIn,          \* arguments of the unit: content, prompt, token fit, API key
    retries,          \* self.request.retries
    tenacityAttempt,  \* attempt number inside _make_api_call (0: not in the call)
    apiCalls,         \* calls of client.chat.completions.create made for this unit
    transientRaised,  \* times humanize_text raised TransientAPIError (history)
    chunkResult,      \* value returned by the task, NoValue before
    failureExc,       \* exception handed to on_failure, "none" before
    deadLetters,      \* payloads passed to dead_letter_task.delay
    countdown         \* countdown of the last scheduled retry

chunkVars == <<taskState, chunkIn, retries, tenacityAttempt, apiCalls,
               transientRaised, chunkResult, failureExc, deadLetters, countdown>>

NoValue == [none |-> TRUE]

ChunkContents == {Str(0, 0), Str(3, 0), Str(40, 33), Str(OpenAIMaxTokens * 4 + 1, 7000)}
ChunkPrompts == {Str(0, 0), Str(60, 50)}

ChunkInputs ==
    [content : ChunkContents, prompt : ChunkPrompts, tokensFit : BOOLEAN,
     hasApiKey : BOOLEAN]

IdleChunkIn ==
    [content |-> Str(0, 0), prompt |-> Str(0, 0), tokensFit |-> TRUE,
     hasApiKey |-> TRUE]

ChunkIdle ==
    /\ taskState = "NONE"
    /\ chunkIn = IdleChunkIn
    /\ retries = 0
    /\ tenacityAttempt = 0
    /\ apiCalls = 0
    /\ transientRaised = 0
    /\ chunkResult = NoValue
    /\ failureExc = "none"
    /\ deadLetters = <<>>
    /\ countdown = 0

ChunkSubmitted ==
    /\ taskState = "PENDING"
    /\ chunkIn \in ChunkInputs
    /\ retries = 0
    /\ tenacityAttempt = 0
    /\ apiCalls = 0
    /\ transientRaised = 0
    /\ chunkResult = NoValue
    /\ failureExc = "none"
    /\ deadLetters = <<>>
    /\ countdown = 0

\* BaseHumanizationTask.on_failure: the dead-letter payload is dispatched
\* only for an exception of class MaxRetriesExceededError.
OnFailure(exc, dl) ==
    IF exc = "MaxRetriesExceededError"
    THEN Append(dl, [original_task |-> "stage3.tasks.humanize_chunk_task",
                     args |-> chunkIn, error |-> exc])
    ELSE dl

\* The pre-flight part of one execution of the task body, up to the API
\* call: "call" when the API call is entered, otherwise the exception class
\* the task raises.
\*   OpenAIService() raises ConfigurationError without a key; the generic
\*   handler of the task turns it into ChunkProcessingError.
Preflight(c) ==
    IF ~c.hasApiKey THEN "ChunkProcessingError"
    ELSE IF IsBlank(c.content) THEN "ChunkProcessingError"
    ELSE IF c.content.len > OpenAIMaxTokens * 4 THEN "ChunkProcessingError"
    ELSE IF IsBlank(c.prompt) THEN "PermanentAPIError"
    ELSE IF ~c.tokensFit THEN "PermanentAPIError"
    ELSE "call"

\* self.retry(countdown=..., exc=e): with request.retries + 1 > max_retries
\* the queue raises the exception given as exc instead of scheduling.
RetryExhausted(r) == r + 1 > TaskMaxRetries

\* the exception the task fails with when self.retry(exc=e) is exhausted
ExhaustedExc(e) == e

\* countdown=min(60 * (2 ** self.request.retries), task_retry_backoff_max)
RetryCountdown(r) == Min(60 * Pow2(r), TaskRetryBackoffMax)

\* request.retries of the next execution
NextRetries(r) == r + 1

\* "retry_count": self.request.retries in the returned metadata
ResultRetryCountMut(r) == IF r > 0 THEN r - 1 ELSE 0

ResultRetryCount(r) == r

ChunkFail(exc) ==
    /\ taskState' = "FAILURE"
    /\ failureExc' = exc
    /\ deadLetters' = OnFailure(exc, deadLetters)
    /\ tenacityAttempt' = 0
    /\ UNCHANGED <<chunkIn, retries, transientRaised, chunkResult, countdown>>

\* ErrorHandler.should_retry: isinstance(error, TransientAPIError);
\* ServiceUnavailableError is its subclass
ShouldRetry(exc) == exc \in {"TransientAPIError", "ServiceUnavailableError"}

\* whether humanize_chunk_task answers an exception of its body by asking
\* for a retry: only the `except TransientAPIError` clause calls self.retry,
\* and autoretry_for holds no permanent class
RetriedMut(exc) == TRUE

Retried(exc) == exc = "TransientAPIError"

\* The task body ends with the exception exc of its validation or of the
\* rewrite call's permanent failure.
ChunkRaises(exc) ==
    IF Retried(exc) /\ ~RetryExhausted(retries)
    THEN /\ taskState' = "RETRY"
         /\ retries' = NextRetries(retries)
         /\ countdown' = RetryCountdown(retries)
         /\ tenacityAttempt' = 0
         /\ UNCHANGED <<chunkIn, transientRaised, chunkResult, failureExc,
                        deadLetters>>
    ELSE ChunkFail(exc)

\* A worker picks the unit up (first execution or a scheduled retry) and
\* runs the task body up to the external call.
StartAttempt ==
    /\ taskState \in {"PENDING", "RETRY"}
    /\ LET p == Preflight(chunkIn) IN
         IF p = "call"
         THEN /\ taskState' = "STARTED"
              /\ tenacityAttempt' = 1
              /\ UNCHANGED <<chunkIn, retries, apiCalls, transientRaised,
                             chunkResult, failureExc, deadLetters, countdown>>
         ELSE /\ ChunkRaises(p)
              /\ UNCHANGED apiCalls

ApiOutcomes == {"ok", "empty", "transient", "permanent"}

\* The external API answers one call of _make_api_call; the rest of the
\* task body runs to its next suspension point.
ApiResponds(o) ==
    /\ taskState = "STARTED"
    /\ apiCalls' = apiCalls + 1
    /\ CASE o = "ok" ->
              /\ taskState' = "SUCCESS"
              /\ chunkResult' = [retry_count |-> ResultRetryCount(retries)]
              /\ tenacityAttempt' = 0
              /\ UNCHANGED <<chunkIn, retries, transientRaised, failureExc,
                             deadLetters, countdown>>
         [] o \in {"empty", "permanent"} ->
              ChunkRaises("PermanentAPIError")
         [] o = "transient" /\ tenacityAttempt < TenacityAttempts ->
              /\ tenacityAttempt' = tenacityAttempt + 1
              /\ UNCHANGED <<taskState, chunkIn, retries, transientRaised,
                             chunkResult, failureExc, deadLetters, countdown>>
         [] o = "transient" /\ tenacityAttempt >= TenacityAttempts ->
              IF RetryExhausted(retries)
              THEN /\ taskState' = "FAILURE"
                   /\ failureExc' = ExhaustedExc("TransientAPIError")
                   /\ deadLetters' =
                          OnFailure(ExhaustedExc("TransientAPIError"), deadLetters)
                   /\ tenacityAttempt' = 0
                   /\ transientRaised' = transientRaised + 1
                   /\ UNCHANGED <<chunkIn, retries, chunkResult, countdown>>
              ELSE /\ taskState' = "RETRY"
                   /\ retries' = NextRetries(retries)
                   /\ countdown' = RetryCountdown(retries)
                   /\ tenacityAttempt' = 0
                   /\ transientRaised' = transientRaised + 1
                   /\ UNCHANGED <<chunkIn, chunkResult, failureExc, deadLetters>>

ChunkNext ==
    \/ StartAttempt
    \/ \E o \in ApiOutcomes : ApiResponds(o)

(***************************************************************************)
(* Claims about the chunk unit                                             *)
(***************************************************************************)

\* C4 (as claimed): a unit whose rewrite call raised TransientAPIError on
\* every attempt until the retry budget was exhausted has been handed to
\* dead_letter_task exactly once, with the task's identity, arguments and
\* final error.
C4_DeadLetteredOnExhaustion ==
    (taskState = "FAILURE" /\ transientRaised > TaskMaxRetries) =>
        /\ Len(deadLetters) = 1
        /\ deadLetters[1].original_task = "stage3.tasks.humanize_chunk_task"
        /\ deadLetters[1].args = chunkIn

\* C5: when the rewrite call raised TransientAPIError k times and then
\* succeeded, the task is in SUCCESS and the retry_count it returned is k;
\* with k below the retry budget the unit has not failed on a transient
\* error.
C5_RetryCountEqualsTransientFailures ==
    /\ taskState = "SUCCESS" => chunkResult.retry_count = transientRaised
    /\ transientRaised < TaskMaxRetries =>
           ~(taskState = "FAILURE" /\ failureExc = "TransientAPIError")

C5_Witness ==
    /\ taskState = "SUCCESS"
    /\ transientRaised = 2
    /\ chunkResult.retry_count = 2

\* C17: no retry is ever scheduled for a PermanentAPIError or for a
\* validation failure (ChunkProcessingError): every retry of the unit
\* follows a TransientAPIError, a unit that fails with a permanent error
\* has been executed once per earlier transient error plus once, a unit
\* whose input fails validation is executed once without any API call, and
\* the error is the one the task fails with; should_retry is false for it.
C17_PermanentErrorsNeverRetried ==
    /\ taskState \in {"STARTED", "RETRY", "SUCCESS"} => retries = transientRaised
    /\ (/\ taskState = "FAILURE"
        /\ failureExc \in {"PermanentAPIError", "ChunkProcessingError"}) =>
           /\ retries = transientRaised
           /\ ~ShouldRetry(failureExc)
    /\ (Preflight(chunkIn) # "call" /\ taskState \notin {"NONE", "PENDING"}) =>
           /\ taskState = "FAILURE"
           /\ failureExc = Preflight(chunkIn)
           /\ retries = 0
           /\ apiCalls = 0

C17_Witness ==
    /\ taskState = "FAILURE"
    /\ failureExc = "PermanentAPIError"
    /\ apiCalls = 1
    /\ retries = 0

\* C22 (as claimed): for one chunk unit the external rewrite API is called
\* at most retry budget + 1 times in total.
C22_ApiCallsWithinRetryBudget ==
    apiCalls <= TaskMaxRetries + 1

(***************************************************************************)
(* TEXT: the merged document is a sequence of characters.                  *)
(***************************************************************************)
Whitespace == {" ", "\n"}
Terminators == {".", "!", "?"}

RECURSIVE LStrip(_)
LStrip(s) ==
    IF s = <<>> THEN <<>>
    ELSE IF Head(s) \in Whitespace THEN LStrip(Tail(s)) ELSE s

RECURSIVE RStrip(_)
RStrip(s) ==
    IF s = <<>> THEN <<>>
    ELSE IF s[Len(s)] \in Whitespace THEN RStrip(SubSeq(s, 1, Len(s) - 1)) ELSE s

\* str.strip()
Strip(s) == LStrip(RStrip(s))

\* ''.join(parts)
RECURSIVE Concat(_)
Concat(parts) ==
    IF parts = <<>> THEN <<>> ELSE Head(parts) \o Concat(Tail(parts))

\* sep.join(parts)
RECURSIVE JoinWith(_, _)
JoinWith(sep, parts) ==
    IF parts = <<>> THEN <<>>
    ELSE IF Len(parts) = 1 THEN parts[1]
    ELSE parts[1] \o sep \o JoinWith(sep, Tail(parts))

\* [x.strip() for x in parts if x.strip()]
RECURSIVE StrippedNonBlank(_)
StrippedNonBlank(parts) ==
    IF parts = <<>> THEN <<>>
    ELSE IF Strip(Head(parts)) = <<>> THEN StrippedNonBlank(Tail(parts))
    ELSE <<Strip(Head(parts))>> \o StrippedNonBlank(Tail(parts))

\* length of the longest prefix of s made of characters in (or, with
\* inside = FALSE, not in) set cs
RECURSIVE Span(_, _, _)
Span(s, cs, inside) ==
    IF s = <<>> THEN 0
    ELSE IF (Head(s) \in cs) = inside THEN 1 + Span(Tail(s), cs, inside)
    ELSE 0

\* re.findall(r'([^.!?]*[.!?]+)', s): the maximal pieces that end in a run
\* of terminators; text after the last terminator is in no piece.
RECURSIVE AllSentences(_)
AllSentences(s) ==
    LET body == Span(s, Terminators, FALSE)
        rest == SubSeq(s, body + 1, Len(s))
        ends == Span(rest, Terminators, TRUE)
    IN IF ends = 0 THEN <<>>
       ELSE <<SubSeq(s, 1, body + ends)>>
                \o AllSentences(SubSeq(s, body + ends + 1, Len(s)))

\* len(re.findall(r'[.!?]+', s)): the number of runs of terminators
SentenceEndings(s) == Len(AllSentences(s))

SentencesPerBoundary == 2

\* _extract_segment_end(segment, sentences=2)
ExtractSegmentEnd(segment) ==
    LET all == AllSentences(segment) IN
    IF SentenceEndings(segment) < SentencesPerBoundary THEN segment
    ELSE IF Len(all) >= SentencesPerBoundary
         THEN Strip(Concat(SubSeq(all, Len(all) - SentencesPerBoundary + 1, Len(all))))
         ELSE segment

\* _extract_segment_start(segment, sentences=2)
ExtractSegmentStart(segment) ==
    LET all == AllSentences(segment) IN
    IF Len(all) >= SentencesPerBoundary
    THEN Strip(Concat(SubSeq(all, 1, SentencesPerBoundary)))
    ELSE segment

\* _remove_segment_start(segment, sentences=2)
RemoveSegmentStart(segment) ==
    LET all == AllSentences(segment) IN
    IF Len(all) > SentencesPerBoundary
    THEN Strip(Concat(SubSeq(all, SentencesPerBoundary + 1, Len(all))))
    ELSE <<>>

\* re.sub(r'\n{3,}', '\n\n', text)
RECURSIVE CollapseNewlines(_)
CollapseNewlines(s) ==
    IF s = <<>> THEN <<>>
    ELSE LET run == Span(s, {"\n"}, TRUE) IN
         IF run >= 3 THEN <<"\n", "\n">> \o CollapseNewlines(SubSeq(s, run + 1, Len(s)))
         ELSE IF run > 0
              THEN SubSeq(s, 1, run) \o CollapseNewlines(SubSeq(s, run + 1, Len(s)))
              ELSE <<Head(s)>> \o CollapseNewlines(Tail(s))

\* text.split('\n')
RECURSIVE SplitLines(_)
SplitLines(s) ==
    LET n == Span(s, {"\n"}, FALSE) IN
    IF n = Len(s) THEN <<s>>
    ELSE <<SubSeq(s, 1, n)>> \o SplitLines(SubSeq(s, n + 2, Len(s)))

RECURSIVE MapRStrip(_)
MapRStrip(lines) ==
    IF lines = <<>> THEN <<>>
    ELSE <<RStrip(Head(lines))>> \o MapRStrip(Tail(lines))

\* _post_process_text
PostProcessText(text) ==
    IF text = <<>> THEN <<>>
    ELSE LET collapsed == CollapseNewlines(text)
             lines == JoinWith(<<"\n">>, MapRStrip(SplitLines(collapsed)))
         IN IF RStrip(lines) = <<>> THEN <<>> ELSE RStrip(lines) \o <<"\n">>

\* OpenAIService.humanize_text as seen by the boundary smoothing, for a
\* rewrite function that returns its input: a blank text is refused by
\* validate_request, the answer is stripped.
SmoothIdentity(boundary) ==
    IF Strip(boundary) = <<>> THEN [raised |-> TRUE, text |-> <<>>]
    ELSE [raised |-> FALSE, text |-> Strip(boundary)]

\* result_parts built by the loop of _join_with_llm_smoothing over
\* segments[i..], or "raise" as soon as one smoothing call raises
RECURSIVE SmoothParts(_, _, _)
SmoothParts(segments, i, rewriteOk) ==
    IF i > Len(segments) THEN [raised |-> FALSE, parts |-> <<>>]
    ELSE LET boundary == ExtractSegmentEnd(segments[i - 1]) \o <<"\n", "\n">>
                             \o ExtractSegmentStart(segments[i])
             smoothed == SmoothIdentity(boundary)
             rest == SmoothParts(segments, i + 1, rewriteOk)
         IN IF ~rewriteOk \/ smoothed.raised \/ rest.raised
            THEN [raised |-> TRUE, parts |-> <<>>]
            ELSE [raised |-> FALSE,
                  parts |-> <<smoothed.text, RemoveSegmentStart(segments[i])>>
                                \o rest.parts]

\* _join_with_llm_smoothing
JoinWithLlmSmoothing(segments, rewriteOk) ==
    IF Len(segments) <= 1
    THEN (IF segments = <<>> THEN <<>> ELSE segments[1])
    ELSE LET sp == SmoothParts(segments, 2, rewriteOk) IN
         IF sp.raised
         THEN JoinWith(<<"\n", "\n">>, StrippedNonBlank(segments))
         ELSE JoinWith(<<"\n">>, StrippedNonBlank(<<segments[1]>> \o sp.parts))

\* _join_text_segments (enable_smoothing is the literal True)
JoinTextSegments(segments, rewriteOk) ==
    IF segments = <<>> THEN <<>>
    ELSE IF Len(segments) = 1 THEN segments[1]
    ELSE JoinWithLlmSmoothing(segments, rewriteOk)

(***************************************************************************)
(* MERGE: merge_chunks_task, the callback of the chord.                    *)
(***************************************************************************)
VARIABLES
    mergeState,    \* "NONE" | "COLLECTING" | "DONE"
    mergePending,  \* chunk results not yet produced
    chunkResults,  \* chunk results in the order they were produced
    smoothOk,      \* whether the rewrite calls of the boundary smoothing succeed
    mergeOut       \* outcome of merge_chunks_task, NoValue before

mergeVars == <<mergeState, mergePending, chunkResults, smoothOk, mergeOut>>

MaxIndex == 2
MaxMergeChunks == 3

MergeContents ==
    {<<>>, <<"A", ".">>, <<"B", ".">>, <<"C", ".">>, <<"B", " ", "b", ".", " ">>}

CandidateResults == [index : 0..MaxIndex, content : MergeContents]

MergeIdle ==
    /\ mergeState = "NONE"
    /\ mergePending = {}
    /\ chunkResults = <<>>
    /\ smoothOk = TRUE
    /\ mergeOut = NoValue

MergeSubmitted ==
    /\ mergeState = "COLLECTING"
    /\ mergePending \in {S \in SUBSET CandidateResults : Cardinality(S) <= MaxMergeChunks}
    /\ chunkResults = <<>>
    /\ smoothOk \in BOOLEAN
    /\ mergeOut = NoValue

\* Names that resolve as attributes of the task instance `self` besides the
\* task API.  _join_text_segments, _join_with_llm_smoothing,
\* _extract_segment_end, _extract_segment_start, _remove_segment_start,
\* _create_smoothing_prompt and _post_process_text are `def` statements
\* inside the body of merge_chunks_task, placed after the `with` block whose
\* every path returns or raises: they are local names that are never bound,
\* not attributes of the task.
MergeTaskAttributes == {}

\* insertion of r after the last element whose index is <= r.index
RECURSIVE InsertByIndex(_, _)
InsertByIndex(sorted, r) ==
    IF sorted = <<>> THEN <<r>>
    ELSE IF sorted[Len(sorted)].index <= r.index THEN Append(sorted, r)
    ELSE Append(InsertByIndex(SubSeq(sorted, 1, Len(sorted) - 1), r),
                sorted[Len(sorted)])

\* sorted(chunk_results, key=lambda x: x.get("index", 0)), a stable sort
RECURSIVE SortByIndex(_)
SortByIndex(results) ==
    IF results = <<>> THEN <<>>
    ELSE InsertByIndex(SortByIndex(SubSeq(results, 1, Len(results) - 1)),
                       results[Len(results)])

\* the non-empty humanized_content values, in the order of the sorted list
RECURSIVE HumanizedSegments(_)
HumanizedSegments(sorted) ==
    IF sorted = <<>> THEN <<>>
    ELSE IF Head(sorted).content = <<>> THEN HumanizedSegments(Tail(sorted))
    ELSE <<Head(sorted).content>> \o HumanizedSegments(Tail(sorted))

\* expected_indices != actual_indices
IndexMismatch(sorted) ==
    (0..(Len(sorted) - 1)) # {sorted[i].index : i \in 1..Len(sorted)}

MergeError(cause) ==
    [status |-> "error", error |-> "ChunkProcessingError", cause |-> cause,
     text |-> <<>>, warned |-> FALSE, chunks_processed |-> 0, chunks_merged |-> 0]

\* merge_chunks_task: every exception of the body is re-raised by the
\* handler as ChunkProcessingError.
MergeChunksTask(results, rewriteOk) ==
    IF results = <<>> THEN MergeError("No chunk results to merge")
    ELSE LET sorted == SortByIndex(results)
             segments == HumanizedSegments(sorted)
         IN IF "_join_text_segments" \notin MergeTaskAttributes
            THEN MergeError("AttributeError")
            ELSE IF "_post_process_text" \notin MergeTaskAttributes
            THEN MergeError("AttributeError")
            ELSE [status |-> "ok", error |-> "none", cause |-> "none",
                  text |-> PostProcessText(JoinTextSegments(segments, rewriteOk)),
                  warned |-> IndexMismatch(sorted),
                  chunks_processed |-> Len(results),
                  chunks_merged |-> Len(segments)]

\* A chunk unit of the group produces its result.
ChunkResultArrives(r) ==
    /\ mergeState = "COLLECTING"
    /\ r \in mergePending
    /\ mergePending' = mergePending \ {r}
    /\ chunkResults' = Append(chunkResults, r)
    /\ UNCHANGED <<mergeState, smoothOk, mergeOut>>

\* The callback runs once every unit of the group has produced its result.
RunMerge ==
    /\ mergeState = "COLLECTING"
    /\ mergePending = {}
    /\ mergeOut' = MergeChunksTask(chunkResults, smoothOk)
    /\ mergeState' = "DONE"
    /\ UNCHANGED <<mergePending, chunkResults, smoothOk>>

MergeNext ==
    \/ \E r \in CandidateResults : ChunkResultArrives(r)
    \/ RunMerge

(***************************************************************************)
(* Claims about the merge                                                  *)
(***************************************************************************)

\* C1 (as claimed): whatever the order in which the chunk results arrived,
\* merge_chunks_task returns a document, and its humanized_text is the one
\* it returns for the same results given in ascending index order.
C1_MergeReturnsIndexOrderText ==
    (mergeState = "DONE" /\ chunkResults # <<>>) =>
        /\ mergeOut.status = "ok"
        /\ MergeChunksTask(SortByIndex(chunkResults), smoothOk).status = "ok"
        /\ mergeOut.text = MergeChunksTask(SortByIndex(chunkResults), smoothOk).text

\* the contents that are one sentence
SingleSentences == {<<"A", ".">>, <<"B", ".">>, <<"C", ".">>}

\* chunk results holding one single-sentence content per index 0..N-1
SingleSentencePerIndex(results) ==
    /\ results # <<>>
    /\ \A i \in 1..Len(results) : results[i].content \in SingleSentences
    /\ \A i \in 0..(Len(results) - 1) :
          Cardinality({j \in 1..Len(results) : results[j].index = i}) = 1

\* the contents of the results in index order
RECURSIVE ContentsOf(_)
ContentsOf(sorted) ==
    IF sorted = <<>> THEN <<>>
    ELSE <<Head(sorted).content>> \o ContentsOf(Tail(sorted))

\* C13 (as claimed): with a rewrite that returns its input unchanged, the
\* merge of N single-sentence chunks at indices 0..N-1 is the contents in
\* index order, each once, separated by one blank line and ended by one
\* newline ("A.\n\nB.\n\nC.\n").
C13_SingleSentencesJoinedByBlankLine ==
    (mergeState = "DONE" /\ smoothOk /\ SingleSentencePerIndex(chunkResults)) =>
        /\ mergeOut.status = "ok"
        /\ mergeOut.text =
              JoinWith(<<"\n", "\n">>, ContentsOf(SortByIndex(chunkResults)))
                  \o <<"\n">>

\* the non-empty segments of the results, in index order
SegmentsOf(results) == HumanizedSegments(SortByIndex(results))

\* C26 (as claimed): when a smoothing rewrite raises during the merge of two
\* or more non-empty segments, the merge still returns a document, and its
\* text is the stripped non-empty segments joined by one blank line (after
\* the clean-up every merge applies), with no smoothed transition in it.
C26_SmoothingFailureFallsBackToPlainJoin ==
    (mergeState = "DONE" /\ ~smoothOk /\ Len(SegmentsOf(chunkResults)) >= 2) =>
        /\ mergeOut.status = "ok"
        /\ mergeOut.text =
              PostProcessText(JoinWith(<<"\n", "\n">>,
                                       StrippedNonBlank(SegmentsOf(chunkResults))))

\* the indices of the results are pairwise distinct and leave a gap
IndicesWithGap(results) ==
    /\ results # <<>>
    /\ \A i, j \in 1..Len(results) :
          results[i].index = results[j].index => i = j
    /\ IndexMismatch(SortByIndex(results))

\* C14 (as claimed): given results whose indices have a gap, the merge
\* warns about the missing index and returns a document built from the
\* contents of exactly the chunks present, in ascending index order.
C14_GapWarnsAndMergesPresentChunks ==
    (mergeState = "DONE" /\ IndicesWithGap(chunkResults)) =>
        /\ mergeOut.status = "ok"
        /\ mergeOut.warned
        /\ mergeOut.chunks_processed = Len(chunkResults)
        /\ mergeOut.text =
              PostProcessText(JoinTextSegments(
                  HumanizedSegments(SortByIndex(chunkResults)), smoothOk))

\* C15 (as claimed): the merge fails exactly when its input list is empty;
\* every non-empty input, with missing or duplicate indices or with empty
\* contents, yields a merged document.
C15_MergeFailsOnlyOnEmptyInput ==
    (mergeState = "DONE") =>
        /\ chunkResults = <<>> =>
              /\ mergeOut.status = "error"
              /\ mergeOut.error = "ChunkProcessingError"
        /\ chunkResults # <<>> => mergeOut.status = "ok"

(***************************************************************************)
(* DETECTOR ENSEMBLE: DetectorService.verify_text over the active          *)
(* detectors, in registration order.                                       *)
(***************************************************************************)
VARIABLES
    verifyState,   \* "NONE" | "RUNNING" | "DONE"
    runParallel,   \* run_parallel argument
    detOutcome,    \* per active detector: what its detect() call does
    detScores,     \* per active detector: the score _safe_detect produced, NoValue before
    loopBlocked,   \* a detect() call holds the event loop and never yields it
    report         \* the VerificationReport returned, NoValue before

detVars == <<verifyState, runParallel, detOutcome, detScores, loopBlocked, report>>

MaxDetectors == 3

DetectorNames ==
    <<"perplexity", "roberta", "commercial_a", "commercial_b", "commercial_c">>

\* ai_probability values, in hundredths
Probs == {0, 10, 50, 90, 100}

\* detect() returns a score without error, returns its own error score,
\* raises, stays suspended at an await beyond detection_timeout ("timeout"),
\* or never returns from a synchronous call made inside the coroutine
\* ("blocks": the model inference of the detectors is not awaited)
DetOutcomes ==
    [kind : {"score"}, prob : Probs]
        \cup [kind : {"selferr", "raise", "timeout", "blocks"}, prob : {50}]

DetIdle ==
    /\ verifyState = "NONE"
    /\ runParallel = TRUE
    /\ detOutcome = <<>>
    /\ detScores = <<>>
    /\ loopBlocked = FALSE
    /\ report = NoValue

DetSubmitted ==
    /\ verifyState = "RUNNING"
    /\ runParallel \in BOOLEAN
    /\ \E n \in 0..MaxDetectors :
          /\ detOutcome \in [1..n -> DetOutcomes]
          /\ detScores = [i \in 1..n |-> NoValue]
    /\ loopBlocked = FALSE
    /\ report = NoValue

\* BaseDetector._get_confidence, probability in hundredths
GetConfidence(p) ==
    IF p >= 80 THEN "very_high"
    ELSE IF p >= 60 THEN "high"
    ELSE IF p >= 40 THEN "medium"
    ELSE IF p >= 20 THEN "low"
    ELSE "very_low"

\* BaseDetector._classify_probability
ClassifyProbability(p) ==
    IF p < 30 THEN [result |-> "human", confidence |-> GetConfidence(100 - p)]
    ELSE IF p > 70 THEN [result |-> "ai_generated", confidence |-> GetConfidence(p)]
    ELSE [result |-> "uncertain", confidence |-> "medium"]

\* detector.detector_type, set by each detector's constructor
DetectorType(name) ==
    CASE name = "perplexity" -> "statistical"
      [] name = "roberta" -> "transformer"
      [] OTHER -> "commercial_api"

\* the neutral score substituted for a detector fault
SyntheticScoreMut(name, err) ==
    [detector_name |-> name, detector_type |-> DetectorType(name),
     ai_probability |-> 50, confidence |-> "very_low",
     result |-> "uncertain", error |-> "none"]

SyntheticScore(name, err) ==
    [detector_name |-> name, detector_type |-> DetectorType(name),
     ai_probability |-> 50, confidence |-> "very_low",
     result |-> "uncertain", error |-> err]

\* DetectorService._safe_detect: the awaited detect() under wait_for
SafeDetect(name, o) ==
    CASE o.kind = "score" ->
             [detector_name |-> name, detector_type |-> DetectorType(name),
              ai_probability |-> o.prob,
              confidence |-> ClassifyProbability(o.prob).confidence,
              result |-> ClassifyProbability(o.prob).result, error |-> "none"]
      [] o.kind = "selferr" ->
             [detector_name |-> name, detector_type |-> DetectorType(name),
              ai_probability |-> 50,
              confidence |-> "very_low", result |-> "uncertain",
              error |-> "detector error"]
      [] o.kind = "timeout" -> SyntheticScore(name, "Detection timeout")
      [] o.kind = "raise" -> SyntheticScore(name, "exception")

\* whether the outcome leaves _safe_detect as an exception: its two except
\* clauses turn a timeout and every Exception into a returned score
EscapesSafeDetectMut(o) == o.kind = "raise"

EscapesSafeDetect(o) == o.kind \notin {"score", "selferr", "timeout", "raise"}

\* the entry _run_parallel_detection appends for a gathered result
ParallelScore(name, o) ==
    IF EscapesSafeDetect(o)
    THEN [SyntheticScore(name, "exception") EXCEPT !.detector_type = "unknown"]
    ELSE SafeDetect(name, o)

\* the entry _run_sequential_detection appends for an awaited detector
SequentialScore(name, o) ==
    IF EscapesSafeDetect(o)
    THEN SyntheticScore(name, "exception")
    ELSE SafeDetect(name, o)

\* detection_scores of the runner chosen by run_parallel, for the outcomes os
DetectionScores(parallel, os) ==
    [i \in 1..Len(os) |->
        IF parallel THEN ParallelScore(DetectorNames[i], os[i])
        ELSE SequentialScore(DetectorNames[i], os[i])]

\* [s for s in scores if s.error is None]
RECURSIVE ValidScores(_)
ValidScores(scores) ==
    IF scores = <<>> THEN <<>>
    ELSE IF Head(scores).error = "none"
         THEN <<Head(scores)>> \o ValidScores(Tail(scores))
         ELSE ValidScores(Tail(scores))

RECURSIVE SumProb(_)
SumProb(scores) ==
    IF scores = <<>> THEN 0 ELSE Head(scores).ai_probability + SumProb(Tail(scores))

\* sum((score.ai_probability - avg) ** 2 for score in scores) with
\* avg = total / n, multiplied by n * n
RECURSIVE SumSqDev(_, _, _)
SumSqDev(scores, total, n) ==
    IF scores = <<>> THEN 0
    ELSE (n * Head(scores).ai_probability - total)
             * (n * Head(scores).ai_probability - total)
         + SumSqDev(Tail(scores), total, n)

\* _calculate_overall_confidence: variance < 0.05, 0.1, 0.2, 0.3, where
\* variance = SumSqDev / (n * n * n * 10000)
CalculateOverallConfidenceMut(scores) ==
    LET n == Len(scores)
        v == SumSqDev(scores, SumProb(scores), n)
        unit == n * n * n * 100
    IN IF v < 5 * unit THEN "very_high"
       ELSE IF v < 10 * unit THEN "high"
       ELSE IF v < 20 * unit THEN "medium"
       ELSE IF v < 30 * unit THEN "low"
       ELSE "very_low"

CalculateOverallConfidence(scores) ==
    LET n == Len(scores)
        v == SumSqDev(scores, SumProb(scores), n)
        unit == n * n * n * 100
    IN IF n < 2 THEN "low"
       ELSE IF v < 5 * unit THEN "very_high"
       ELSE IF v < 10 * unit THEN "high"
       ELSE IF v < 20 * unit THEN "medium"
       ELSE IF v < 30 * unit THEN "low"
       ELSE "very_low"

AiProbabilityThreshold == 50

\* _generate_recommendations, one tag per recommendation string
GenerateRecommendations(overall, valid, total, n) ==
    LET ai_votes == Cardinality({i \in 1..Len(valid) : valid[i].result = "ai_generated"})
        human_votes == Cardinality({i \in 1..Len(valid) : valid[i].result = "human"})
        high_ai == Cardinality({i \in 1..Len(valid) : valid[i].ai_probability > 70})
    IN (CASE overall = "ai_generated" ->
                 <<"reprocess with modified prompts">>
                 \o (IF total > 80 * n THEN <<"aggressive humanization required">> ELSE <<>>)
                 \o (IF high_ai > 0 THEN <<"flagged by">> ELSE <<>>)
          [] overall = "human" -> <<"verification passed">>
          [] OTHER ->
                 <<"manual review recommended">>
                 \o (IF ai_votes > 0 /\ human_votes > 0
                     THEN <<"conflicting detector results">> ELSE <<>>))

\* the report of the branch `if not valid_scores`
DegradedReportMut(scores) ==
    [overall_result |-> "human", overall_confidence |-> "very_low",
     ai_probability_avg |-> <<0, 1>>, detector_scores |-> scores,
     recommendations |-> <<"verification passed">>,
     valid_detectors |-> 0, failed_detectors |-> Len(scores)]

DegradedReport(scores) ==
    [overall_result |-> "uncertain", overall_confidence |-> "very_low",
     ai_probability_avg |-> <<50, 1>>, detector_scores |-> scores,
     recommendations |-> <<"manual review required">>,
     valid_detectors |-> 0, failed_detectors |-> Len(scores)]

\* DetectorService._create_verification_report; ai_probability_avg is the
\* fraction <<sum, count>> in hundredths
CreateVerificationReport(scores) ==
    LET valid == ValidScores(scores)
        n == Len(valid)
        total == SumProb(valid)
        overall == IF total < (AiProbabilityThreshold - 20) * n THEN "human"
                   ELSE IF total > (AiProbabilityThreshold + 20) * n THEN "ai_generated"
                   ELSE "uncertain"
    IN IF valid = <<>> THEN DegradedReport(scores)
       ELSE [overall_result |-> overall,
             overall_confidence |-> CalculateOverallConfidence(valid),
             ai_probability_avg |-> <<total, n>>,
             detector_scores |-> scores,
             recommendations |-> GenerateRecommendations(overall, valid, total, n),
             valid_detectors |-> n,
             failed_detectors |-> Len(scores) - n]

NumDetectors == Len(detOutcome)

\* In parallel mode every _safe_detect task runs on its own and they finish
\* in any order; in sequential mode detector i is awaited after i - 1.
DetectorFinishes(i) ==
    /\ verifyState = "RUNNING"
    /\ ~loopBlocked
    /\ i \in 1..NumDetectors
    /\ detScores[i] = NoValue
    /\ detOutcome[i].kind # "blocks"
    /\ runParallel \/ \A j \in 1..(i - 1) : detScores[j] # NoValue
    /\ detScores' = [detScores EXCEPT
                         ![i] = DetectionScores(runParallel, detOutcome)[i]]
    /\ UNCHANGED <<verifyState, runParallel, detOutcome, loopBlocked, report>>

\* The event loop runs the detect() coroutine of detector i, which enters a
\* synchronous call that never returns: the loop thread never gets control
\* back, so neither the timer of wait_for nor any other task runs again.
DetectorBlocksLoop(i) ==
    /\ verifyState = "RUNNING"
    /\ ~loopBlocked
    /\ i \in 1..NumDetectors
    /\ detScores[i] = NoValue
    /\ detOutcome[i].kind = "blocks"
    /\ runParallel \/ \A j \in 1..(i - 1) : detScores[j] # NoValue
    /\ loopBlocked' = TRUE
    /\ UNCHANGED <<verifyState, runParallel, detOutcome, detScores, report>>

\* gather (or the loop) has every score, in detector order: aggregate
VerifyReturns ==
    /\ verifyState = "RUNNING"
    /\ ~loopBlocked
    /\ \A i \in 1..NumDetectors : detScores[i] # NoValue
    /\ report' = CreateVerificationReport(detScores)
    /\ verifyState' = "DONE"
    /\ UNCHANGED <<runParallel, detOutcome, detScores, loopBlocked>>

DetNext ==
    \/ \E i \in 1..MaxDetectors : DetectorFinishes(i)
    \/ \E i \in 1..MaxDetectors : DetectorBlocksLoop(i)
    \/ VerifyReturns

(***************************************************************************)
(* Claims about the detector ensemble                                      *)
(***************************************************************************)
Faulty(i) == detOutcome[i].kind \in {"raise", "timeout"}

ErrorFree(i) == detOutcome[i].kind = "score"

RECURSIVE SumOutcomeProbs(_)
SumOutcomeProbs(I) ==
    IF I = {} THEN 0
    ELSE LET i == CHOOSE x \in I : TRUE
         IN detOutcome[i].prob + SumOutcomeProbs(I \ {i})

RECURSIVE SumOutcomeSquares(_)
SumOutcomeSquares(I) ==
    IF I = {} THEN 0
    ELSE LET i == CHOOSE x \in I : TRUE
         IN detOutcome[i].prob * detOutcome[i].prob + SumOutcomeSquares(I \ {i})

\* the band of the population variance of the probabilities of the
\* detectors in I: the variance is mean of squares minus square of mean,
\* (n * sum of squares - sum * sum) / (n * n) in hundredths squared
VarianceBand(I) ==
    LET n == Cardinality(I)
        num == n * SumOutcomeSquares(I) - SumOutcomeProbs(I) * SumOutcomeProbs(I)
    IN IF num < 500 * n * n THEN "very_high"
       ELSE IF num < 1000 * n * n THEN "high"
       ELSE IF num < 2000 * n * n THEN "medium"
       ELSE IF num < 3000 * n * n THEN "low"
       ELSE "very_low"

ErrorFreeDetectors == {i \in 1..NumDetectors : ErrorFree(i)}

\* C27 (as claimed): for every non-empty set of error-free scores the
\* overall confidence is the band of the population variance of their
\* probabilities.
C27_ConfidenceIsVarianceBand ==
    (verifyState = "DONE" /\ ErrorFreeDetectors # {}) =>
        report.overall_confidence = VarianceBand(ErrorFreeDetectors)

\* C27 (amended): with two or more error-free scores the overall confidence
\* is the band of the population variance of their probabilities (very_high
\* below 0.05, high below 0.1, medium below 0.2, low below 0.3, very_low
\* otherwise); with exactly one error-free score it is low.
C27_ConfidenceIsVarianceBandOfTwoOrMore ==
    (verifyState = "DONE" /\ ErrorFreeDetectors # {}) =>
        report.overall_confidence =
            IF Cardinality(ErrorFreeDetectors) >= 2
            THEN VarianceBand(ErrorFreeDetectors)
            ELSE "low"

C27_Witness ==
    /\ verifyState = "DONE"
    /\ NumDetectors = 3
    /\ detOutcome[1] = [kind |-> "score", prob |-> 50]
    /\ detOutcome[2].kind = "raise"
    /\ detOutcome[3] = [kind |-> "score", prob |-> 100]
    /\ report.overall_confidence = "high"

\* detect() of detector i never returns
NeverReturns(i) == detOutcome[i].kind \in {"timeout", "blocks"}

\* C19 (as claimed): in parallel mode, when a detector never returns,
\* verify_text eventually returns a report in which every such detector
\* has the synthetic "Detection timeout" score and every detector that
\* gave a score has its own score.
C19_HungDetectorCutOffByTimeout ==
    (/\ verifyState = "RUNNING"
     /\ runParallel
     /\ \E i \in 1..NumDetectors : NeverReturns(i))
    ~> (/\ verifyState = "DONE"
        /\ \A i \in 1..NumDetectors :
              /\ NeverReturns(i) =>
                    /\ report.detector_scores[i].error = "Detection timeout"
                    /\ report.detector_scores[i].ai_probability = 50
              /\ ErrorFree(i) =>
                    /\ report.detector_scores[i].error = "none"
                    /\ report.detector_scores[i].ai_probability = detOutcome[i].prob)

\* C37: for the same per-detector outcomes, verify_text returns the same
\* report with run_parallel true and false: one score per active detector
\* in registration order, and the same aggregate fields.
C37_ParallelAndSequentialAgree ==
    verifyState = "DONE" =>
        /\ report = CreateVerificationReport(DetectionScores(TRUE, detOutcome))
        /\ report = CreateVerificationReport(DetectionScores(FALSE, detOutcome))
        /\ Len(report.detector_scores) = NumDetectors
        /\ \A i \in 1..NumDetectors :
              report.detector_scores[i].detector_name = DetectorNames[i]

C37_Witness ==
    /\ verifyState = "DONE"
    /\ runParallel
    /\ NumDetectors = 3
    /\ detOutcome[1].kind = "timeout"
    /\ detOutcome[2].kind = "raise"
    /\ detOutcome[3] = [kind |-> "score", prob |-> 10]
    /\ report.detector_scores[3].result = "human"

(***************************************************************************)
(* CANCELLATION: OrchestrationService.cancel_job.  Handle 0 is the main    *)
(* task, handles 1..n are the chunk tasks of task_ids["chunk_task_ids"].   *)
(***************************************************************************)
VARIABLES
    cancelState,   \* "NONE" | "CALLED" | "DONE"
    cancelIn,      \* task_ids and the handles whose revoke raises
    cancelOut      \* returned dictionary plus the handles revoke was called on

cancelVars == <<cancelState, cancelIn, cancelOut>>

MaxChunkHandles == 3

CancelInputs ==
    UNION {[hasMain : BOOLEAN, hasChunkIds : BOOLEAN, n : {n},
            failing : SUBSET (0..n)] : n \in 0..MaxChunkHandles}

IdleCancelIn == [hasMain |-> FALSE, hasChunkIds |-> FALSE, n |-> 0, failing |-> {}]

CancelIdle ==
    /\ cancelState = "NONE"
    /\ cancelIn = IdleCancelIn
    /\ cancelOut = NoValue

CancelSubmitted ==
    /\ cancelState = "CALLED"
    /\ cancelIn \in CancelInputs
    /\ cancelOut = NoValue

\* the loop over task_ids["chunk_task_ids"] from handle i on: each revoke
\* has its own try/except
RECURSIVE RevokeChunks(_, _, _)
RevokeChunks(in, i, acc) ==
    IF i > in.n THEN acc
    ELSE RevokeChunks(in, i + 1,
             IF i \in in.failing
             THEN [acc EXCEPT !.errors = Append(@, i), !.attempted = @ \cup {i}]
             ELSE [acc EXCEPT !.cancelled_tasks = Append(@, i),
                              !.attempted = @ \cup {i}])

\* cancel_job: the revoke of the main task is inside the outer try only
CancelJob(in) ==
    LET start == [status |-> "cancelled", cancelled_tasks |-> <<>>,
                  errors |-> <<>>, attempted |-> {}]
        afterMain ==
            IF in.hasMain
            THEN [start EXCEPT !.cancelled_tasks = <<0>>, !.attempted = {0}]
            ELSE start
    IN IF in.hasMain /\ 0 \in in.failing
       THEN [start EXCEPT !.status = "cancellation_failed", !.attempted = {0}]
       ELSE IF in.hasChunkIds THEN RevokeChunks(in, 1, afterMain)
       ELSE afterMain

CancelJobCall ==
    /\ cancelState = "CALLED"
    /\ cancelOut' = CancelJob(cancelIn)
    /\ cancelState' = "DONE"
    /\ UNCHANGED cancelIn

CancelNext == CancelJobCall

\* C6 (as claimed): cancel_job calls revoke on the main handle and on every
\* chunk handle of task_ids; each handle whose revoke raised, the main one
\* included, is listed in the returned errors, and the call still returns
\* the "cancelled" result.
C6_CancelCollectsEveryFailure ==
    (cancelState = "DONE" /\ cancelIn.hasMain /\ cancelIn.hasChunkIds) =>
        /\ cancelOut.attempted = 0..cancelIn.n
        /\ {cancelOut.errors[k] : k \in 1..Len(cancelOut.errors)} = cancelIn.failing
        /\ cancelOut.status = "cancelled"

(***************************************************************************)
(* ORCHESTRATION: OrchestrationService.process_text_parallel.  The chunk   *)
(* list is kept as runs of equal chunks <<chunk, n>>.                      *)
(***************************************************************************)
VARIABLES
    orchState,   \* "NONE" | "CALLED" | "DONE"
    orchIn,      \* chunks, humanization_prompt, enable_verification
    orchOut      \* outcome of the call and the number of tasks dispatched

orchVars == <<orchState, orchIn, orchOut>>

MaxChunkCount == 100
MaxChunkChars == 50000
MaxPromptChars == 10000

MaxRuns == 2

Chunk(d, c, s) == [isDict |-> d, hasContent |-> c, content |-> s]

ChunkKinds ==
    {Chunk(TRUE, TRUE, Str(20, 15)),
     Chunk(FALSE, FALSE, Str(0, 0)),
     Chunk(TRUE, FALSE, Str(0, 0)),
     Chunk(TRUE, TRUE, Str(0, 0)),
     Chunk(TRUE, TRUE, Str(4, 0)),
     Chunk(TRUE, TRUE, Str(MaxChunkChars + 1, 40000))}

RunLengths == {1, MaxChunkCount}

ChunkRuns == [chunk : ChunkKinds, n : RunLengths]

ChunkLists == UNION {[1..k -> ChunkRuns] : k \in 0..MaxRuns}

Prompts ==
    {Str(0, 0), Str(5, 0), Str(80, 70), Str(MaxPromptChars, 9000),
     Str(MaxPromptChars + 1, 9000)}

IdleOrchIn == [chunks |-> <<>>, prompt |-> Str(0, 0), enable_verification |-> FALSE]

OrchIdle ==
    /\ orchState = "NONE"
    /\ orchIn = IdleOrchIn
    /\ orchOut = NoValue

OrchSubmitted ==
    /\ orchState = "CALLED"
    /\ orchIn \in [chunks : ChunkLists, prompt : Prompts, enable_verification : BOOLEAN]
    /\ orchOut = NoValue

\* len(chunks)
RECURSIVE ChunkCount(_)
ChunkCount(runs) ==
    IF runs = <<>> THEN 0 ELSE Head(runs).n + ChunkCount(Tail(runs))

\* the checks of the loop body of _validate_chunks for one chunk
ChunkInvalid(c) ==
    \/ ~c.isDict
    \/ ~c.hasContent
    \/ IsBlank(c.content)
    \/ c.content.len > MaxChunkChars

\* _validate_chunks: "ok" or the exception class raised
ValidateChunks(runs) ==
    IF runs = <<>> THEN "ChunkProcessingError"
    ELSE IF ChunkCount(runs) > MaxChunkCount THEN "ChunkProcessingError"
    ELSE IF \E k \in 1..Len(runs) : ChunkInvalid(runs[k].chunk)
         THEN "ChunkProcessingError"
    ELSE "ok"

\* _validate_prompt: "ok" or the exception class raised
ValidatePromptMut(prompt) ==
    IF IsEmpty(prompt) THEN "ConfigurationError"
    ELSE IF prompt.len > MaxPromptChars THEN "ConfigurationError"
    ELSE "ok"

ValidatePrompt(prompt) ==
    IF IsBlank(prompt) THEN "ConfigurationError"
    ELSE IF prompt.len > MaxPromptChars THEN "ConfigurationError"
    ELSE "ok"

\* process_text_parallel.  _create_basic_chord dispatches one
\* humanize_chunk_task per chunk and the merge callback.  With
\* enable_verification the finished chord result (not a signature) is given
\* to chain(): chainAccepts is whether the queue library takes it and
\* dispatches verification_task, or raises after the chord was dispatched.
ProcessTextParallel(in, chainAccepts) ==
    IF ValidateChunks(in.chunks) # "ok"
    THEN [status |-> "raised", error |-> ValidateChunks(in.chunks), units |-> 0]
    ELSE IF ValidatePrompt(in.prompt) # "ok"
    THEN [status |-> "raised", error |-> ValidatePrompt(in.prompt), units |-> 0]
    ELSE IF ~in.enable_verification
    THEN [status |-> "started", error |-> "none",
          units |-> ChunkCount(in.chunks) + 1]
    ELSE IF chainAccepts
    THEN [status |-> "started", error |-> "none",
          units |-> ChunkCount(in.chunks) + 2]
    ELSE [status |-> "raised", error |-> "TypeError",
          units |-> ChunkCount(in.chunks) + 1]

ProcessTextParallelCall(chainAccepts) ==
    /\ orchState = "CALLED"
    /\ orchOut' = ProcessTextParallel(orchIn, chainAccepts)
    /\ orchState' = "DONE"
    /\ UNCHANGED orchIn

OrchNext == \E chainAccepts \in BOOLEAN : ProcessTextParallelCall(chainAccepts)

\* the inputs C7 says are rejected
C7_Rejected(in) ==
    \/ ChunkCount(in.chunks) = 0
    \/ ChunkCount(in.chunks) > 100
    \/ \E k \in 1..Len(in.chunks) :
          \/ ~in.chunks[k].chunk.hasContent
          \/ in.chunks[k].chunk.content.ns = 0
    \/ in.prompt.len = 0
    \/ in.prompt.ns = 0
    \/ in.prompt.len > 10000

\* C7: a call of process_text_parallel with an empty chunk list, more than
\* 100 chunks, a chunk without content or with blank content, or an empty,
\* blank or over-long (> 10000 characters) prompt raises, and no chunk,
\* merge or verification task has been dispatched.
C7_InvalidInputDispatchesNothing ==
    (orchState = "DONE" /\ C7_Rejected(orchIn)) =>
        /\ orchOut.status = "raised"
        /\ orchOut.units = 0

C7_Witness ==
    /\ orchState = "DONE"
    /\ ChunkCount(orchIn.chunks) = 101
    /\ \A k \in 1..Len(orchIn.chunks) : ~ChunkInvalid(orchIn.chunks[k].chunk)
    /\ ValidatePrompt(orchIn.prompt) = "ok"
    /\ orchOut.status = "raised"
    /\ orchOut.units = 0

(***************************************************************************)
(* REFINEMENT LOOP: iterative_refinement_task.  The rewrite call and the   *)
(* verification of iteration k are stubs whose outcome is stubs[k].        *)
(***************************************************************************)
VARIABLES
    refState,   \* "NONE" | "CALLED" | "DONE"
    refIn,      \* verification_result, max_iterations and the stubs
    refOut      \* returned dictionary plus the numbers of stub calls made

refVars == <<refState, refIn, refOut>>

MaxIterations == 3

\* per iteration: the rewrite raises, or it succeeds and the verification
\* of the rewritten text passes or not with the given overall_ai_probability
StubOutcomes ==
    {[kind |-> "rewrite_raises", prob |-> 0],
     [kind |-> "pass", prob |-> 20],
     [kind |-> "fail", prob |-> 60],
     [kind |-> "fail", prob |-> 80]}

RefTexts == {Str(0, 0), Str(3, 0), Str(120, 100)}

\* overall_ai_probability of the report the task is given
RefProbs == {20, 90}

RefInputs ==
    {in \in [passed : BOOLEAN, text : RefTexts, prob : RefProbs,
             maxIter : 0..MaxIterations,
             stubs : [1..MaxIterations -> StubOutcomes]] :
        in.passed <=> in.prob = 20}

IdleRefIn ==
    [passed |-> FALSE, text |-> Str(0, 0), prob |-> 90, maxIter |-> 0,
     stubs |-> [k \in 1..MaxIterations |-> [kind |-> "rewrite_raises", prob |-> 0]]]

RefIdle ==
    /\ refState = "NONE"
    /\ refIn = IdleRefIn
    /\ refOut = NoValue

RefSubmitted ==
    /\ refState = "CALLED"
    /\ refIn \in RefInputs
    /\ refOut = NoValue

\* Names that resolve as attributes of the task instance `self` besides the
\* task API.  _generate_refined_prompt, _reprocess_text_with_refined_prompt
\* and _verify_refined_text are `def` statements inside the body of
\* iterative_refinement_task, placed after the `with` block whose every path
\* returns: they are never bound and are not attributes of the task.
RefinementTaskAttributes == {}

\* the verification report a stubbed verification returns
StubReport(o) == [passed_verification |-> o.kind = "pass",
                  overall_ai_probability |-> o.prob]

\* the verification_result argument
InitialReport(in) ==
    [passed_verification |-> in.passed,
     overall_ai_probability |-> in.prob]

\* verification_result.get("passed_verification", False)
AlreadyPassedMut(in) == FALSE

AlreadyPassed(in) == in.passed

RefResult(status, rep, history, used, rw, vf) ==
    [final_status |-> status, final_verification_result |-> rep,
     refinement_history |-> history, iterations_used |-> used,
     rewrite_calls |-> rw, verify_calls |-> vf]

\* the for loop of iterative_refinement_task from iteration k on, with the
\* current report cur, the history so far and the stub calls made so far
RECURSIVE RefineLoop(_, _, _, _, _, _)
RefineLoop(in, k, cur, history, rw, vf) ==
    IF k > in.maxIter
    THEN RefResult("EXHAUSTED", cur, history, in.maxIter, rw, vf)
    ELSE IF "_generate_refined_prompt" \notin RefinementTaskAttributes
    THEN \* AttributeError outside the per-iteration try: outer handler
         RefResult("ERROR", InitialReport(in), history, Len(history), rw, vf)
    ELSE LET o == in.stubs[k] IN
         IF \/ "_reprocess_text_with_refined_prompt" \notin RefinementTaskAttributes
            \/ "_verify_refined_text" \notin RefinementTaskAttributes
         THEN RefineLoop(in, k + 1, cur,
                  Append(history, [iteration |-> k, status |-> "failed",
                      previous_ai_probability |-> cur.overall_ai_probability]),
                  rw, vf)
         ELSE IF o.kind = "rewrite_raises"
         THEN RefineLoop(in, k + 1, cur,
                  Append(history, [iteration |-> k, status |-> "failed",
                      previous_ai_probability |-> cur.overall_ai_probability]),
                  rw + 1, vf)
         ELSE LET new == StubReport(o)
                  attempt ==
                      [iteration |-> k, status |-> "completed",
                       previous_ai_probability |-> cur.overall_ai_probability,
                       new_ai_probability |-> new.overall_ai_probability,
                       improvement |-> cur.overall_ai_probability
                                           - new.overall_ai_probability,
                       passed_verification |-> new.passed_verification]
              IN IF new.passed_verification
                 THEN RefResult("COMPLETED", new, Append(history, attempt), k,
                                rw + 1, vf + 1)
                 ELSE RefineLoop(in, k + 1, new, Append(history, attempt),
                                 rw + 1, vf + 1)

\* iterative_refinement_task
IterativeRefinementTask(in) ==
    LET initial == InitialReport(in)
    IN IF AlreadyPassed(in)
       THEN RefResult("COMPLETED", initial, <<>>, 0, 0, 0)
       ELSE IF IsBlank(in.text)
       THEN \* ValueError before refinement_history is assigned: the outer
            \* handler reads the unassigned name and the task raises
            [final_status |-> "raised", final_verification_result |-> initial,
             refinement_history |-> <<>>, iterations_used |-> 0,
             rewrite_calls |-> 0, verify_calls |-> 0]
       ELSE RefineLoop(in, 1, initial, <<>>, 0, 0)

IterativeRefinementCall ==
    /\ refState = "CALLED"
    /\ refOut' = IterativeRefinementTask(refIn)
    /\ refState' = "DONE"
    /\ UNCHANGED refIn

RefNext == IterativeRefinementCall

(***************************************************************************)
(* Claims about the refinement loop                                        *)
(***************************************************************************)
StubNeverPasses(in) ==
    \A k \in 1..in.maxIter : in.stubs[k].kind = "fail"

\* the first iteration whose stubbed verification passes, 0 if none; the
\* rewrites of the iterations before it do not raise
FirstPassing(in) ==
    IF \E k \in 1..in.maxIter :
          /\ in.stubs[k].kind = "pass"
          /\ \A j \in 1..(k - 1) : in.stubs[j].kind = "fail"
    THEN CHOOSE k \in 1..in.maxIter :
          /\ in.stubs[k].kind = "pass"
          /\ \A j \in 1..(k - 1) : in.stubs[j].kind = "fail"
    ELSE 0

\* C3 (as claimed): started from a report that did not pass, with
\* max_iterations = m >= 1 and stubs under which no iteration passes, the
\* task ends with final_status EXHAUSTED after exactly m iterations and
\* len(refinement_history) = m.
C3_ExhaustedAfterMaxIterations ==
    (/\ refState = "DONE"
     /\ ~refIn.passed
     /\ ~IsBlank(refIn.text)
     /\ refIn.maxIter >= 1
     /\ StubNeverPasses(refIn)) =>
        /\ refOut.final_status = "EXHAUSTED"
        /\ refOut.iterations_used = refIn.maxIter
        /\ Len(refOut.refinement_history) = refIn.maxIter
        /\ refOut.rewrite_calls = refIn.maxIter

\* C9: called with a verification result that already passed, the task
\* returns COMPLETED with an empty refinement_history, zero iterations used
\* and the report it was given, and has made no rewrite or detector call.
C9_AlreadyPassedShortCircuit ==
    (refState = "DONE" /\ refIn.passed) =>
        /\ refOut.final_status = "COMPLETED"
        /\ refOut.refinement_history = <<>>
        /\ refOut.iterations_used = 0
        /\ refOut.final_verification_result.passed_verification
        /\ refOut.rewrite_calls = 0
        /\ refOut.verify_calls = 0

C9_Witness ==
    /\ refState = "DONE"
    /\ refIn.passed
    /\ refIn.maxIter = 3
    /\ ~IsBlank(refIn.text)
    /\ refOut.final_status = "COMPLETED"

\* C10 (as claimed): when iteration j is the first whose new verification
\* passes, the task returns COMPLETED, the attempt of iteration j is the
\* last entry of refinement_history and the only one that passed, the final
\* report is that iteration's report, and exactly j rewrite and j
\* verification calls were made.
C10_StopsAtFirstPassingIteration ==
    (/\ refState = "DONE"
     /\ ~refIn.passed
     /\ ~IsBlank(refIn.text)
     /\ FirstPassing(refIn) > 0) =>
        LET j == FirstPassing(refIn)
            h == refOut.refinement_history
        IN /\ refOut.final_status = "COMPLETED"
           /\ Len(h) = j
           /\ h[j].iteration = j
           /\ h[j].passed_verification
           /\ \A i \in 1..(j - 1) : ~h[i].passed_verification
           /\ refOut.final_verification_result = StubReport(refIn.stubs[j])
           /\ refOut.rewrite_calls = j
           /\ refOut.verify_calls = j

\* the first iteration whose rewrite raises, the iterations before it
\* having been rewritten and verified without passing; 0 if there is none
FirstRaising(in) ==
    IF \E k \in 1..in.maxIter :
          /\ in.stubs[k].kind = "rewrite_raises"
          /\ \A j \in 1..(k - 1) : in.stubs[j].kind = "fail"
    THEN CHOOSE k \in 1..in.maxIter :
          /\ in.stubs[k].kind = "rewrite_raises"
          /\ \A j \in 1..(k - 1) : in.stubs[j].kind = "fail"
    ELSE 0

\* the overall_ai_probability of the report held when iteration k starts
ProbBefore(in, k) ==
    IF k = 1 THEN in.prob ELSE in.stubs[k - 1].prob

\* C11 (as claimed): when the rewrite of iteration k raises, the task does
\* not end with final_status ERROR; entry k of refinement_history is a
\* failed attempt, and when k < max_iterations iteration k+1 is run with the
\* report held before iteration k.
C11_IterationExceptionIsRecorded ==
    (/\ refState = "DONE"
     /\ ~refIn.passed
     /\ ~IsBlank(refIn.text)
     /\ FirstRaising(refIn) > 0) =>
        LET k == FirstRaising(refIn)
            h == refOut.refinement_history
        IN /\ refOut.final_status # "ERROR"
           /\ Len(h) >= k
           /\ h[k].iteration = k
           /\ h[k].status = "failed"
           /\ k < refIn.maxIter =>
                 /\ Len(h) >= k + 1
                 /\ h[k + 1].previous_ai_probability = ProbBefore(refIn, k)

\* C12 (as claimed): called with a verification result that did not pass
\* and whose humanized_text is empty or blank, the task returns a result
\* with final_status ERROR and an empty refinement_history, without raising
\* and without any rewrite or verification call.
C12_BlankTextReturnsError ==
    (refState = "DONE" /\ ~refIn.passed /\ IsBlank(refIn.text)) =>
        /\ refOut.final_status = "ERROR"
        /\ refOut.refinement_history = <<>>
        /\ refOut.iterations_used = 0
        /\ refOut.rewrite_calls = 0
        /\ refOut.verify_calls = 0

\* the completed attempts of a history before entry k
CompletedBefore(h, k) == {i \in 1..(k - 1) : h[i].status = "completed"}

\* new_ai_probability of the latest completed attempt before entry k, the
\* initial report's overall_ai_probability when there is none
LatestProbBefore(in, h, k) ==
    IF CompletedBefore(h, k) = {} THEN in.prob
    ELSE LET last == CHOOSE i \in CompletedBefore(h, k) :
                         \A j \in CompletedBefore(h, k) : j <= i
         IN h[last].new_ai_probability

VerifiedIterations(in) ==
    {k \in 1..in.maxIter : in.stubs[k].kind # "rewrite_raises"}

VARIABLES
    jobState,     \* "NONE" | "RUNNING"
    jobTaskIds,   \* what task_ids holds: main_task_id, chunk_task_ids
    jobBackendUp, \* whether the result backend answers
    jobChunks,    \* state of each chunk handle, in header order
    jobMain,      \* state of the main handle (the chord callback)
    jobMergeRan,  \* whether merge_chunks_task was executed
    jobPoll       \* what the last get_job_status call returned, NoValue before

jobVars == <<jobState, jobTaskIds, jobBackendUp, jobChunks, jobMain,
             jobMergeRan, jobPoll>>

MaxJobChunks == 3

\* the states of a task handle that ready() reports as finished
ReadyStates == {"SUCCESS", "FAILURE", "REVOKED"}

Ready(st) == st \in ReadyStates

IdleJobTaskIds == [hasMain |-> FALSE, hasChunkIds |-> FALSE]

JobIdle ==
    /\ jobState = "NONE"
    /\ jobTaskIds = IdleJobTaskIds
    /\ jobBackendUp = TRUE
    /\ jobChunks = <<>>
    /\ jobMain = "PENDING"
    /\ jobMergeRan = FALSE
    /\ jobPoll = NoValue

\* the state after process_text_parallel started the chord
JobSubmitted ==
    /\ jobState = "RUNNING"
    /\ jobTaskIds \in [hasMain : BOOLEAN, hasChunkIds : BOOLEAN]
    /\ jobBackendUp \in BOOLEAN
    /\ jobChunks \in UNION {[1..n -> {"PENDING"}] : n \in 1..MaxJobChunks}
    /\ jobMain = "PENDING"
    /\ jobMergeRan = FALSE
    /\ jobPoll = NoValue

\* A chunk unit ends: with its result, or in failure (a permanent error, or
\* a transient one after the last retry).
ChunkUnitEnds(i, st) ==
    /\ jobState = "RUNNING"
    /\ i \in 1..Len(jobChunks)
    /\ jobChunks[i] = "PENDING"
    /\ jobChunks' = [jobChunks EXCEPT ![i] = st]
    /\ UNCHANGED <<jobState, jobTaskIds, jobBackendUp, jobMain, jobMergeRan,
                   jobPoll>>

\* the chunk results the header hands to the callback
HeaderResults(chunks) ==
    [i \in 1..Len(chunks) |-> [index |-> i - 1, content |-> <<"A", ".">>]]

\* chord(header_tasks)(callback): once every header task succeeded the
\* callback merge_chunks_task runs over their results.
ChordCallbackRuns ==
    /\ jobState = "RUNNING"
    /\ jobMain = "PENDING"
    /\ \A i \in 1..Len(jobChunks) : jobChunks[i] = "SUCCESS"
    /\ jobMergeRan' = TRUE
    /\ jobMain' = IF MergeChunksTask(HeaderResults(jobChunks), TRUE).status = "ok"
                  THEN "SUCCESS" ELSE "FAILURE"
    /\ UNCHANGED <<jobState, jobTaskIds, jobBackendUp, jobChunks, jobPoll>>

\* chord(header_tasks)(callback): a failed header task makes the chord fail;
\* the callback is not executed and its handle goes to FAILURE.
ChordHeaderFailed ==
    /\ jobState = "RUNNING"
    /\ jobMain = "PENDING"
    /\ \E i \in 1..Len(jobChunks) : jobChunks[i] = "FAILURE"
    /\ jobMain' = "FAILURE"
    /\ UNCHANGED <<jobState, jobTaskIds, jobBackendUp, jobChunks, jobMergeRan,
                   jobPoll>>

\* the number of chunk handles for which ready() is true
CompletedChunks(chunks) ==
    Cardinality({i \in 1..Len(chunks) : Ready(chunks[i])})

DefaultProgress ==
    [percentage |-> <<0, 1>>, completed_chunks |-> 0, total_chunks |-> 0,
     stage |-> "unknown"]

\* the stage chosen from completed_chunks and total_chunks
ProgressStage(completed, total) ==
    IF completed = 0 THEN "processing"
    ELSE IF completed = total THEN "merging"
    ELSE "processing"

\* _calculate_progress; percentage is the fraction <<numerator, denominator>>
CalculateProgress(taskIds, chunks, backendUp) ==
    IF ~taskIds.hasChunkIds THEN DefaultProgress
    ELSE IF ~backendUp THEN DefaultProgress
    ELSE LET total == Len(chunks)
             completed == CompletedChunks(chunks)
         IN [percentage |-> IF total > 0 THEN <<completed * 100, total>>
                            ELSE <<0, 1>>,
             completed_chunks |-> completed,
             total_chunks |-> total,
             stage |-> ProgressStage(completed, total)]

\* get_job_status
GetJobStatus(taskIds, chunks, main, backendUp) ==
    IF ~taskIds.hasMain
    THEN [status |-> "unknown", progress |-> DefaultProgress,
          hasError |-> TRUE, hasResult |-> FALSE, chunk_progress |-> <<>>]
    ELSE IF ~backendUp
    THEN [status |-> "error", progress |-> DefaultProgress,
          hasError |-> TRUE, hasResult |-> FALSE, chunk_progress |-> <<>>]
    ELSE [status |-> main,
          progress |-> CalculateProgress(taskIds, chunks, backendUp),
          hasError |-> Ready(main) /\ main # "SUCCESS",
          hasResult |-> main = "SUCCESS",
          chunk_progress |-> IF taskIds.hasChunkIds
                             THEN [i \in 1..Len(chunks) |->
                                      [status |-> chunks[i],
                                       ready |-> Ready(chunks[i])]]
                             ELSE <<>>]

\* A client polls the job.
GetJobStatusCall ==
    /\ jobState = "RUNNING"
    /\ jobPoll' = GetJobStatus(jobTaskIds, jobChunks, jobMain, jobBackendUp)
    /\ UNCHANGED <<jobState, jobTaskIds, jobBackendUp, jobChunks, jobMain,
                   jobMergeRan>>

JobNext ==
    \/ \E i \in 1..MaxJobChunks : ChunkUnitEnds(i, "SUCCESS")
    \/ \E i \in 1..MaxJobChunks : ChunkUnitEnds(i, "FAILURE")
    \/ ChordCallbackRuns
    \/ ChordHeaderFailed
    \/ GetJobStatusCall

(***************************************************************************)
(* Claims about the job                                                    *)
(***************************************************************************)
\* the poll answered with the state of the handles
PollAnswered ==
    /\ jobPoll # NoValue
    /\ jobPoll.status \notin {"unknown", "error"}
    /\ jobPoll.chunk_progress # <<>>

\* the chunk handles the poll reports in state st
PolledIn(st) ==
    {i \in 1..Len(jobPoll.chunk_progress) : jobPoll.chunk_progress[i].status = st}

\* the chunk handles the poll reports as ready
PolledReady ==
    {i \in 1..Len(jobPoll.chunk_progress) : jobPoll.chunk_progress[i].ready}

\* one chunk unit failed and every other one succeeded
OneFailedOthersSucceeded(chunks) ==
    /\ Cardinality({i \in 1..Len(chunks) : chunks[i] = "FAILURE"}) = 1
    /\ \A i \in 1..Len(chunks) : chunks[i] \in {"SUCCESS", "FAILURE"}
    /\ Len(chunks) >= 2

\* C16 (as claimed): when one chunk unit of a job failed and the others
\* succeeded, the merge step still runs once the job is over, and a poll
\* taken then does not report FAILURE: it reports the failure as a
\* completed/total ratio below 1 (only the succeeded chunks count).
C16_PartialFailureDoesNotFailJob ==
    /\ (/\ jobState = "RUNNING"
        /\ OneFailedOthersSucceeded(jobChunks)
        /\ Ready(jobMain)) => jobMergeRan
    /\ (/\ PollAnswered
        /\ Cardinality(PolledIn("FAILURE")) = 1
        /\ Cardinality(PolledIn("SUCCESS")) = Len(jobPoll.chunk_progress) - 1
        /\ Len(jobPoll.chunk_progress) >= 2) =>
           /\ jobPoll.status # "FAILURE"
           /\ jobPoll.progress.completed_chunks = Cardinality(PolledIn("SUCCESS"))

\* C20 (as claimed): in every poll, percentage is completed/total x 100
\* with completed the number of ready chunk handles; stage is "processing"
\* while a chunk handle is not ready and "merging" exactly when all chunk
\* handles are ready and the merge step has not completed.
C20_ProgressFollowsChunkReadiness ==
    PollAnswered =>
        LET total == Len(jobPoll.chunk_progress)
            completed == Cardinality(PolledReady)
        IN /\ jobPoll.progress.completed_chunks = completed
           /\ jobPoll.progress.total_chunks = total
           /\ jobPoll.progress.percentage = <<completed * 100, total>>
           /\ completed < total => jobPoll.progress.stage = "processing"
           /\ jobPoll.progress.stage = "merging" <=>
                 (completed = total /\ ~Ready(jobPoll.status))

(***************************************************************************)
(* ERROR CLASSIFICATION: classify_api_error(status_code, error_message).   *)
(***************************************************************************)
VARIABLES
    classifyState,  \* "NONE" | "CALLED" | "DONE"
    classifyIn,     \* status_code
    classifyOut     \* the exception object returned, NoValue before

classifyVars == <<classifyState, classifyIn, classifyOut>>

\* status codes handed to classify_api_error: every class of the rule and
\* both sides of each boundary
StatusCodes ==
    {-1, 0, 100, 200, 302, 399, 400, 401, 402, 403, 404, 408, 418, 428, 429,
     430, 499, 500, 502, 503, 599, 600, 700} \cup (440..560)

ClassifyIdle ==
    /\ classifyState = "NONE"
    /\ classifyIn = 0
    /\ classifyOut = NoValue

ClassifySubmitted ==
    /\ classifyState = "CALLED"
    /\ classifyIn \in StatusCodes
    /\ classifyOut = NoValue

ApiError(class, code, status) ==
    [class |-> class, error_code |-> code, status_code |-> status]

\* classify_api_error
ClassifyApiErrorMut(status) ==
    IF 500 <= status /\ status < 600
    THEN ApiError("TransientAPIError", "SERVER_ERROR", status)
    ELSE IF status \in {401, 403}
    THEN ApiError("PermanentAPIError", "AUTH_ERROR", status)
    ELSE IF status = 400
    THEN ApiError("PermanentAPIError", "BAD_REQUEST", status)
    ELSE IF 400 <= status /\ status < 500
    THEN ApiError("PermanentAPIError", "CLIENT_ERROR", status)
    ELSE ApiError("TransientAPIError", "UNKNOWN_ERROR", status)

ClassifyApiError(status) ==
    IF status \in {429}
    THEN ApiError("TransientAPIError", "RATE_LIMITED", status)
    ELSE IF 500 <= status /\ status < 600
    THEN ApiError("TransientAPIError", "SERVER_ERROR", status)
    ELSE IF status \in {401, 403}
    THEN ApiError("PermanentAPIError", "AUTH_ERROR", status)
    ELSE IF status = 400
    THEN ApiError("PermanentAPIError", "BAD_REQUEST", status)
    ELSE IF 400 <= status /\ status < 500
    THEN ApiError("PermanentAPIError", "CLIENT_ERROR", status)
    ELSE ApiError("TransientAPIError", "UNKNOWN_ERROR", status)

ClassifyApiErrorCall ==
    /\ classifyState = "CALLED"
    /\ classifyOut' = ClassifyApiError(classifyIn)
    /\ classifyState' = "DONE"
    /\ UNCHANGED classifyIn

ClassifyNext == ClassifyApiErrorCall

\* C18: classify_api_error returns a TransientAPIError for status 429 and
\* for 500..599, a PermanentAPIError for every other status in 400..499,
\* and a TransientAPIError for every status outside 400..599.
C18_StatusClassification ==
    (classifyState = "DONE") =>
        /\ classifyOut.status_code = classifyIn
        /\ (classifyIn = 429 \/ classifyIn \in 500..599) =>
               classifyOut.class = "TransientAPIError"
        /\ (classifyIn \in 400..499 /\ classifyIn # 429) =>
               classifyOut.class = "PermanentAPIError"
        /\ classifyIn \notin 400..599 =>
               classifyOut.class = "TransientAPIError"

C18_Witness ==
    /\ classifyState = "DONE"
    /\ classifyIn = 429
    /\ classifyOut.class = "TransientAPIError"
    /\ ShouldRetry(classifyOut.class)

(***************************************************************************)
(* FAN-IN: the chord of _create_basic_chord.  Every header task            *)
(* (humanize_chunk_task) runs on some worker, retries included, and the    *)
(* callback merge_chunks_task is the barrier after them.                   *)
(***************************************************************************)
VARIABLES
    fanState,      \* "NONE" | "RUNNING"
    fanUnits,      \* per header task: state, request.retries, executions
    fanMergeRuns,  \* executions of the callback merge_chunks_task
    fanMergeSaw    \* the states of the header tasks when the callback started

fanVars == <<fanState, fanUnits, fanMergeRuns, fanMergeSaw>>

MaxFanChunks == 2

FinalStates == {"SUCCESS", "FAILURE"}

FanUnit(st, r, x) == [state |-> st, retries |-> r, runs |-> x]

FanIdle ==
    /\ fanState = "NONE"
    /\ fanUnits = <<>>
    /\ fanMergeRuns = 0
    /\ fanMergeSaw = <<>>

\* chord(header_tasks)(callback) has been submitted
FanSubmitted ==
    /\ fanState = "RUNNING"
    /\ fanUnits \in UNION {[1..n -> {FanUnit("PENDING", 0, 0)}] :
                              n \in 1..MaxFanChunks}
    /\ fanMergeRuns = 0
    /\ fanMergeSaw = <<>>

UnitOutcomes == {"ok", "transient", "permanent"}

\* the header task i after one execution that ended with outcome o
AfterExecution(u, o) ==
    IF o = "ok" THEN FanUnit("SUCCESS", u.retries, u.runs + 1)
    ELSE IF o = "transient" /\ Retried("TransientAPIError")
            /\ ~RetryExhausted(u.retries)
    THEN FanUnit("RETRY", NextRetries(u.retries), u.runs + 1)
    ELSE FanUnit("FAILURE", u.retries, u.runs + 1)

\* A worker executes header task i (first execution or a scheduled retry).
UnitExecutes(i, o) ==
    /\ fanState = "RUNNING"
    /\ i \in 1..Len(fanUnits)
    /\ fanUnits[i].state \in {"PENDING", "RETRY"}
    /\ fanUnits' = [fanUnits EXCEPT ![i] = AfterExecution(fanUnits[i], o)]
    /\ UNCHANGED <<fanState, fanMergeRuns, fanMergeSaw>>

\* the chord releases its callback: every header task has returned a result
HeaderCompleteMut(units) ==
    \E i \in 1..Len(units) : units[i].state = "SUCCESS"

HeaderComplete(units) ==
    \A i \in 1..Len(units) : units[i].state = "SUCCESS"

\* The callback of the chord is executed, once.
CallbackExecutes ==
    /\ fanState = "RUNNING"
    /\ fanMergeRuns = 0
    /\ HeaderComplete(fanUnits)
    /\ fanMergeRuns' = fanMergeRuns + 1
    /\ fanMergeSaw' = [i \in 1..Len(fanUnits) |-> fanUnits[i].state]
    /\ UNCHANGED <<fanState, fanUnits>>

FanNext ==
    \/ \E i \in 1..MaxFanChunks : \E o \in UnitOutcomes : UnitExecutes(i, o)
    \/ CallbackExecutes

VARIABLES
    contState,    \* "NONE" | "CALLED" | "STARTED" | "MERGED" | "VERIFIED" | "DONE"
    contEntry,    \* "process_text_parallel" | "create_verification_chain"
    contLinked,   \* whether verification_task was linked after the chord
    contMerged,   \* outcome of the merge step, "none" before it
    contVerdict,  \* passed_verification of the report, NoValue before it
    contRefined   \* executions of iterative_refinement_task

contVars == <<contState, contEntry, contLinked, contMerged, contVerdict,
              contRefined>>

ContEntries == {"process_text_parallel", "create_verification_chain"}

ContIdle ==
    /\ contState = "NONE"
    /\ contEntry = "process_text_parallel"
    /\ contLinked = FALSE
    /\ contMerged = "none"
    /\ contVerdict = NoValue
    /\ contRefined = 0

\* process_text_parallel was called with enable_verification=true and has
\* dispatched the chord, or create_verification_chain was called with a
\* merged result
ContSubmitted ==
    /\ contEntry \in ContEntries
    /\ contState = IF contEntry = "process_text_parallel" THEN "CALLED"
                   ELSE "MERGED"
    /\ contLinked = FALSE
    /\ contMerged = IF contEntry = "process_text_parallel" THEN "none"
                    ELSE "ok"
    /\ contVerdict = NoValue
    /\ contRefined = 0

\* _create_chord_with_verification: the chain links verification_task and
\* nothing else after the chord; chainAccepts is whether chain() takes the
\* dispatched chord result as its first element or raises.
CreateChordWithVerification(chainAccepts) ==
    /\ contState = "CALLED"
    /\ contLinked' = chainAccepts
    /\ contState' = "STARTED"
    /\ UNCHANGED <<contEntry, contMerged, contVerdict, contRefined>>

\* the chord callback merge_chunks_task runs over the header results; a
\* callback that raised has no continuation
MergeCallbackRuns ==
    /\ contState = "STARTED"
    /\ contMerged' = MergeChunksTask(HeaderResults(<<"SUCCESS">>), TRUE).status
    /\ contState' = IF contMerged' = "ok" THEN "MERGED" ELSE "DONE"
    /\ UNCHANGED <<contEntry, contLinked, contVerdict, contRefined>>

\* verification_task over the merged result; passed is whether the report
\* recommends ACCEPT
VerificationTaskRuns(passed) ==
    /\ contState = "MERGED"
    /\ contEntry = "process_text_parallel" => contLinked
    /\ contVerdict' = [passed_verification |-> passed]
    /\ contState' = "VERIFIED"
    /\ UNCHANGED <<contEntry, contLinked, contMerged, contRefined>>

\* create_verification_chain: a report that did not pass is handed to
\* iterative_refinement_task
RefinementTaskApplied ==
    /\ contState = "VERIFIED"
    /\ contEntry = "create_verification_chain"
    /\ ~contVerdict.passed_verification
    /\ contRefined' = contRefined + 1
    /\ contState' = "DONE"
    /\ UNCHANGED <<contEntry, contLinked, contMerged, contVerdict>>

\* the report is the result: of create_verification_chain when it passed,
\* of the orchestration chain in every case
VerificationResultReturned ==
    /\ contState = "VERIFIED"
    /\ \/ contEntry = "process_text_parallel"
       \/ contVerdict.passed_verification
    /\ contState' = "DONE"
    /\ UNCHANGED <<contEntry, contLinked, contMerged, contVerdict, contRefined>>

ContNext ==
    \/ \E chainAccepts \in BOOLEAN : CreateChordWithVerification(chainAccepts)
    \/ MergeCallbackRuns
    \/ \E passed \in BOOLEAN : VerificationTaskRuns(passed)
    \/ RefinementTaskApplied
    \/ VerificationResultReturned

\* C23: a job started by process_text_parallel with enable_verification=true
\* that has finished ran verification after the merge step; a report that
\* did not recommend ACCEPT was handed to the refinement loop, and a report
\* that passed was returned with no refinement iteration.
C23_VerificationThenRefinementAfterMerge ==
    (contEntry = "process_text_parallel" /\ contState = "DONE") =>
        /\ contVerdict # NoValue
        /\ contVerdict.passed_verification => contRefined = 0
        /\ ~contVerdict.passed_verification => contRefined > 0

(***************************************************************************)
(* DETECTOR SERVICE INITIALISATION: coroutines of one event loop obtain    *)
(* the service and call verify_text.  The initialisers of the detectors    *)
(* contain no suspension point, so one run of initialize is one step.      *)
(***************************************************************************)
VARIABLES
    svcState,        \* "NONE" | "RUNNING"
    svcEntry,        \* "DetectorService" | "get_detector_service"
    svcConfigOk,     \* whether every enabled commercial_apis entry has a name
    svcGlobal,       \* whether _detector_service is set
    svcInitialized,  \* DetectorService._initialized
    svcLoads,        \* the number of runs of DetectorService.initialize
    svcCallers       \* per caller: its position and what it found

svcVars == <<svcState, svcEntry, svcConfigOk, svcGlobal, svcInitialized,
             svcLoads, svcCallers>>

MaxCallers == 3

Callers == 1..MaxCallers

SvcEntries == {"DetectorService", "get_detector_service"}

Caller(pos, usedInitialized) == [pos |-> pos, usedInitialized |-> usedInitialized]

SvcIdle ==
    /\ svcState = "NONE"
    /\ svcEntry = "DetectorService"
    /\ svcConfigOk = TRUE
    /\ svcGlobal = FALSE
    /\ svcInitialized = FALSE
    /\ svcLoads = 0
    /\ svcCallers = [c \in Callers |-> Caller("start", FALSE)]

\* the callers were scheduled together on a service not yet initialised:
\* each holds a DetectorService() built by the program, or is about to ask
\* get_detector_service for the global one
SvcSubmitted ==
    /\ svcState = "RUNNING"
    /\ svcEntry \in SvcEntries
    /\ svcConfigOk \in BOOLEAN
    /\ svcGlobal = FALSE
    /\ svcInitialized = FALSE
    /\ svcLoads = 0
    /\ svcCallers = [c \in Callers |->
                        Caller(IF svcEntry = "DetectorService" THEN "holding"
                               ELSE "start", FALSE)]

\* DetectorService.initialize: _initialized is set at the end of the try
\* block; an exception of the block is caught and leaves it unset.
InitializeSetsFlag(configOk) == configOk

\* get_detector_service: the global is assigned before initialize is
\* awaited, and the result of initialize is not looked at.
GetDetectorService(c) ==
    /\ svcState = "RUNNING"
    /\ svcCallers[c].pos = "start"
    /\ IF ~svcGlobal
       THEN /\ svcGlobal' = TRUE
            /\ svcLoads' = svcLoads + 1
            /\ svcInitialized' = InitializeSetsFlag(svcConfigOk)
       ELSE UNCHANGED <<svcGlobal, svcLoads, svcInitialized>>
    /\ svcCallers' = [svcCallers EXCEPT ![c] = Caller("holding", FALSE)]
    /\ UNCHANGED <<svcState, svcEntry, svcConfigOk>>

\* verify_text up to its first suspension: initialize is awaited when
\* _initialized is unset, its result is not looked at, and the detectors
\* are then used.
VerifyTextStarts(c) ==
    /\ svcState = "RUNNING"
    /\ svcCallers[c].pos = "holding"
    /\ IF ~svcInitialized
       THEN /\ svcLoads' = svcLoads + 1
            /\ svcInitialized' = InitializeSetsFlag(svcConfigOk)
       ELSE UNCHANGED <<svcLoads, svcInitialized>>
    /\ svcCallers' = [svcCallers EXCEPT ![c] = Caller("detecting", svcInitialized')]
    /\ UNCHANGED <<svcState, svcEntry, svcConfigOk, svcGlobal>>

\* verify_text returns its report
VerifyTextEnds(c) ==
    /\ svcState = "RUNNING"
    /\ svcCallers[c].pos = "detecting"
    /\ svcCallers' = [svcCallers EXCEPT ![c].pos = "done"]
    /\ UNCHANGED <<svcState, svcEntry, svcConfigOk, svcGlobal, svcInitialized,
                   svcLoads>>

SvcNext ==
    \/ \E c \in Callers : GetDetectorService(c)
    \/ \E c \in Callers : VerifyTextStarts(c)
    \/ \E c \in Callers : VerifyTextEnds(c)

UsesService(c) == svcCallers[c].pos \in {"detecting", "done"}

\* C24: initialize runs at most once per service however the concurrent
\* callers interleave, and every caller that uses the detectors does so on
\* a service whose initialisation has finished.
C24_InitialisedExactlyOnce ==
    /\ svcLoads <= 1
    /\ \A c \in Callers : UsesService(c) => svcCallers[c].usedInitialized

(***************************************************************************)
(* POST-PROCESSING: _post_process_text applied to a text.                  *)
(***************************************************************************)
VARIABLES
    postState,  \* "NONE" | "CALLED" | "DONE"
    postIn,     \* the text given
    postOut     \* the text returned, empty before the call

postVars == <<postState, postIn, postOut>>

MaxTextLen == 5

TextChars == {"a", " ", "\n"}

Texts == UNION {[1..n -> TextChars] : n \in 0..MaxTextLen}

PostIdle ==
    /\ postState = "NONE"
    /\ postIn = <<>>
    /\ postOut = <<>>

PostSubmitted ==
    /\ postState = "CALLED"
    /\ postIn \in Texts
    /\ postOut = <<>>

PostProcessTextCall ==
    /\ postState = "CALLED"
    /\ postOut' = PostProcessText(postIn)
    /\ postState' = "DONE"
    /\ UNCHANGED postIn

PostNext == PostProcessTextCall

\* the text has three consecutive newlines somewhere
HasLongNewlineRun(s) ==
    \E i \in 1..(Len(s) - 2) : s[i] = "\n" /\ s[i + 1] = "\n" /\ s[i + 2] = "\n"

\* some line of the text ends in a blank
HasTrailingWhitespaceLine(s) ==
    \/ \E i \in 1..(Len(s) - 1) : s[i] = " " /\ s[i + 1] = "\n"
    \/ (s # <<>> /\ s[Len(s)] = " ")

EndsWithOneNewline(s) ==
    /\ Len(s) >= 2
    /\ s[Len(s)] = "\n"
    /\ s[Len(s) - 1] # "\n"

\* C25: the text returned by _post_process_text has no run of three or more
\* newlines and no line with trailing whitespace, and a non-empty result
\* ends with exactly one newline.
C25_PostProcessedTextIsClean ==
    postState = "DONE" =>
        /\ ~HasLongNewlineRun(postOut)
        /\ ~HasTrailingWhitespaceLine(postOut)
        /\ postOut # <<>> => EndsWithOneNewline(postOut)

(***************************************************************************)
(* RETRY DELAY: ErrorHandler.get_retry_delay called for one error at an    *)
(* attempt number and at the next one.  random.uniform(0.5, 1.5) is a      *)
(* draw in tenths.                                                         *)
(***************************************************************************)
VARIABLES
    delayState,  \* "NONE" | "CALLED" | "FIRST" | "DONE"
    delayIn,     \* the error and the first attempt number
    delayOut     \* the delays returned so far, in call order

delayVars == <<delayState, delayIn, delayOut>>

MaxAttempt == 4
BaseDelay == 60
MaxDelay == 600

\* jitter draws, in tenths: the ends and the middle of [0.5, 1.5]
JitterDraws == {5, 10, 15}

\* retry_after of the error in seconds, 0 when the API gave none
RetryAfters == {0, 30}

DelayErrors ==
    [kind : {"TransientAPIError"}, retry_after : RetryAfters]
        \cup [kind : {"PermanentAPIError"}, retry_after : {0}]

DelayIdle ==
    /\ delayState = "NONE"
    /\ delayIn = [error |-> [kind |-> "PermanentAPIError", retry_after |-> 0],
                  attempt |-> 0]
    /\ delayOut = <<>>

DelaySubmitted ==
    /\ delayState = "CALLED"
    /\ delayIn \in [error : DelayErrors, attempt : 0..MaxAttempt]
    /\ delayOut = <<>>

\* get_retry_delay; int() truncates the product
GetRetryDelay(error, attempt, jitter) ==
    IF error.kind = "TransientAPIError"
    THEN IF error.retry_after # 0 THEN error.retry_after
         ELSE (Min(BaseDelay * Pow2(attempt), MaxDelay) * jitter) \div 10
    ELSE BaseDelay

\* get_retry_delay(error, attempt)
FirstDelayCall(jitter) ==
    /\ delayState = "CALLED"
    /\ delayOut' = <<GetRetryDelay(delayIn.error, delayIn.attempt, jitter)>>
    /\ delayState' = "FIRST"
    /\ UNCHANGED delayIn

\* get_retry_delay(error, attempt + 1)
NextDelayCall(jitter) ==
    /\ delayState = "FIRST"
    /\ delayOut' = Append(delayOut,
                          GetRetryDelay(delayIn.error, delayIn.attempt + 1, jitter))
    /\ delayState' = "DONE"
    /\ UNCHANGED delayIn

DelayNext ==
    \/ \E jitter \in JitterDraws : FirstDelayCall(jitter)
    \/ \E jitter \in JitterDraws : NextDelayCall(jitter)

\* C28: for a transient error the delay computed for attempt a + 1 is
\* strictly greater than the delay computed for attempt a, whatever the
\* jitter draws of the two calls.
C28_RetryDelayStrictlyIncreases ==
    (delayState = "DONE" /\ delayIn.error.kind = "TransientAPIError") =>
        delayOut[2] > delayOut[1]

\* C33 (as claimed): no retry delay exceeds task_retry_backoff_max: neither
\* the countdown of humanize_chunk_task nor a value returned by
\* get_retry_delay for a transient error without retry_after.
C33_RetryDelayWithinBackoffMax ==
    /\ countdown <= TaskRetryBackoffMax
    /\ (delayIn.error.kind = "TransientAPIError" /\ delayIn.error.retry_after = 0) =>
          \A k \in 1..Len(delayOut) : delayOut[k] <= TaskRetryBackoffMax

(***************************************************************************)
(* COMPLETION ESTIMATE: _estimate_completion_time, in tenths of a second.  *)
(***************************************************************************)
VARIABLES
    estState,  \* "NONE" | "CALLED" | "DONE"
    estIn,     \* chunk_count and settings.celery.worker_concurrency
    estOut     \* the estimate returned, 0 before the call

estVars == <<estState, estIn, estOut>>

MaxEstimateChunks == 9
MaxWorkers == 4

BaseProcessingTimePerChunk == 10
ParallelEfficiencyTenths == 7
MergeTime == 2

EstIdle ==
    /\ estState = "NONE"
    /\ estIn = [chunk_count |-> 1, worker_concurrency |-> 1]
    /\ estOut = 0

\* process_text_parallel calls it with the number of validated chunks
EstSubmitted ==
    /\ estState = "CALLED"
    /\ estIn \in [chunk_count : 1..MaxEstimateChunks,
                  worker_concurrency : 1..MaxWorkers]
    /\ estOut = 0

\* _estimate_completion_time
EstimateCompletionTimeMut(chunk_count, worker_count) ==
    LET parallel_chunks == Min(chunk_count, MaxWorkers)
        sequential_batches == (chunk_count + parallel_chunks - 1) \div parallel_chunks
    IN sequential_batches * BaseProcessingTimePerChunk * ParallelEfficiencyTenths
           + MergeTime * 10

EstimateCompletionTime(chunk_count, worker_count) ==
    LET parallel_chunks == Min(chunk_count, worker_count)
        sequential_batches == (chunk_count + parallel_chunks - 1) \div parallel_chunks
    IN sequential_batches * BaseProcessingTimePerChunk * ParallelEfficiencyTenths
           + MergeTime * 10

EstimateCompletionTimeCall ==
    /\ estState = "CALLED"
    /\ estOut' = EstimateCompletionTime(estIn.chunk_count, estIn.worker_concurrency)
    /\ estState' = "DONE"
    /\ UNCHANGED estIn

EstNext == EstimateCompletionTimeCall

\* ceil(n / w): the least k with k * w >= n
CeilDiv(n, w) == CHOOSE k \in 1..n : k * w >= n /\ (k - 1) * w < n

\* C29: the estimate for n chunks with w workers is ceil(n / w) batches of
\* 10 s at efficiency 0.7 plus 2 s of merging, and no smaller chunk count
\* has a greater estimate.
C29_EstimateFollowsFormula ==
    estState = "DONE" =>
        /\ estOut = CeilDiv(estIn.chunk_count, estIn.worker_concurrency) * 70 + 20
        /\ \A m \in 1..estIn.chunk_count :
              EstimateCompletionTime(m, estIn.worker_concurrency) <= estOut

C29_Witness ==
    /\ estState = "DONE"
    /\ estIn = [chunk_count |-> 5, worker_concurrency |-> 2]
    /\ estOut = 230

(***************************************************************************)
(* METRICS: VerificationMetricsCollector.  Rates and averages are exact    *)
(* fractions <<numerator, denominator>>.  The metric points and the alert  *)
(* state written by _emit_metric are not read by any operation below.      *)
(***************************************************************************)
VARIABLES
    metState,       \* "NONE" | "RUNNING"
    metStats,       \* verification_stats
    metDetectors,   \* detector_stats: total_runs and error_count per detector
    metCalls,       \* the number of record_* calls made
    metHealth,      \* the last health score returned, NoValue before
    metRecent       \* recent_metrics["verification_started"] and
                    \* ["verification_processing_time"], in timestamp order

metVars == <<metState, metStats, metDetectors, metCalls, metHealth, metRecent>>

MaxRecordCalls == 4

MetricDetectors == {"perplexity", "roberta"}

\* processing times in seconds
ProcessingTimes == {0, 60, 600}

HealthTimeScale == 300

FreshStats ==
    [total_verifications |-> 0, passed_verifications |-> 0,
     failed_verifications |-> 0, refinement_attempts |-> 0,
     successful_refinements |-> 0, average_processing_time |-> <<0, 1>>]

FreshDetectors == [d \in MetricDetectors |-> [total_runs |-> 0, error_count |-> 0]]

MetIdle ==
    /\ metState = "NONE"
    /\ metStats = FreshStats
    /\ metDetectors = FreshDetectors
    /\ metCalls = 0
    /\ metHealth = NoValue
    /\ metRecent = <<>>

\* a collector as built by __init__
MetSubmitted ==
    /\ metState = "RUNNING"
    /\ metStats = FreshStats
    /\ metDetectors = FreshDetectors
    /\ metCalls = 0
    /\ metHealth = NoValue
    /\ metRecent = <<>>

RecordVerificationStart ==
    /\ metState = "RUNNING"
    /\ metCalls < MaxRecordCalls
    /\ metRecent' = Append(metRecent, [name |-> "verification_started", value |-> 1])
    /\ metStats' = [metStats EXCEPT !.total_verifications = @ + 1]
    /\ metCalls' = metCalls + 1
    /\ UNCHANGED <<metState, metDetectors, metHealth>>

\* the running average (current_avg * (total - 1) + processing_time) / total
RunningAverage(avg, total, processing_time) ==
    <<avg[1] * (total - 1) + processing_time * avg[2], avg[2] * total>>

\* record_verification_completion: the passed or failed counter is
\* incremented first; with total_verifications = 0 the division of the
\* running average raises and the average is left as it was.
RecordVerificationCompletion(passed, processing_time) ==
    /\ metState = "RUNNING"
    /\ metCalls < MaxRecordCalls
    /\ LET counted == IF passed
                      THEN [metStats EXCEPT !.passed_verifications = @ + 1]
                      ELSE [metStats EXCEPT !.failed_verifications = @ + 1]
           total == metStats.total_verifications
       IN /\ metStats' =
                 IF total = 0 THEN counted
                 ELSE [counted EXCEPT !.average_processing_time =
                          RunningAverage(@, total, processing_time)]
          /\ metRecent' =
                 IF total = 0 THEN metRecent
                 ELSE Append(metRecent, [name |-> "verification_processing_time",
                                         value |-> processing_time])
    /\ metCalls' = metCalls + 1
    /\ UNCHANGED <<metState, metDetectors, metHealth>>

RecordDetectorPerformance(d, success) ==
    /\ metState = "RUNNING"
    /\ metCalls < MaxRecordCalls
    /\ metDetectors' =
          [metDetectors EXCEPT ![d] =
              [total_runs |-> @.total_runs + 1,
               error_count |-> IF success THEN @.error_count ELSE @.error_count + 1]]
    /\ metCalls' = metCalls + 1
    /\ UNCHANGED <<metState, metStats, metHealth, metRecent>>

RecordRefinementAttempt(success) ==
    /\ metState = "RUNNING"
    /\ metCalls < MaxRecordCalls
    /\ metStats' =
          [metStats EXCEPT !.refinement_attempts = @ + 1,
                           !.successful_refinements = IF success THEN @ + 1 ELSE @]
    /\ metCalls' = metCalls + 1
    /\ UNCHANGED <<metState, metDetectors, metHealth, metRecent>>

FracAdd(a, b) == <<a[1] * b[2] + b[1] * a[2], a[2] * b[2]>>

RECURSIVE FracSum(_)
FracSum(fs) == IF fs = <<>> THEN <<0, 1>> ELSE FracAdd(Head(fs), FracSum(Tail(fs)))

\* 1.0 - error_rate of the detectors that have runs, in any fixed order
RECURSIVE DetectorSuccessRates(_, _)
DetectorSuccessRates(stats, D) ==
    IF D = {} THEN <<>>
    ELSE LET d == CHOOSE x \in D : TRUE
             rest == DetectorSuccessRates(stats, D \ {d})
         IN IF stats[d].total_runs > 0
            THEN <<<<stats[d].total_runs - stats[d].error_count,
                     stats[d].total_runs>>>> \o rest
            ELSE rest

\* max(0, 1 - (avg_time / 300))
TimeScore(avg) ==
    IF avg[1] > HealthTimeScale * avg[2] THEN <<0, 1>>
    ELSE <<HealthTimeScale * avg[2] - avg[1], HealthTimeScale * avg[2]>>

\* the scores list of get_system_health_score
HealthScores(stats, detectors) ==
    (IF stats.total_verifications > 0
     THEN <<<<stats.passed_verifications, stats.total_verifications>>>>
     ELSE <<>>)
    \o (LET rates == DetectorSuccessRates(detectors, MetricDetectors)
        IN IF rates # <<>>
           THEN <<<<FracSum(rates)[1], FracSum(rates)[2] * Len(rates)>>>>
           ELSE <<>>)
    \o (IF stats.refinement_attempts > 0
        THEN <<<<stats.successful_refinements, stats.refinement_attempts>>>>
        ELSE <<>>)
    \o <<TimeScore(stats.average_processing_time)>>

\* get_system_health_score: sum(scores) / len(scores)
GetSystemHealthScore(stats, detectors) ==
    LET scores == HealthScores(stats, detectors)
    IN [score |-> <<FracSum(scores)[1], FracSum(scores)[2] * Len(scores)>>]

GetSystemHealthScoreCall ==
    /\ metState = "RUNNING"
    /\ metHealth' = GetSystemHealthScore(metStats, metDetectors)
    /\ UNCHANGED <<metState, metStats, metDetectors, metCalls, metRecent>>

MetNext ==
    \/ RecordVerificationStart
    \/ \E passed \in BOOLEAN, t \in ProcessingTimes :
          RecordVerificationCompletion(passed, t)
    \/ \E d \in MetricDetectors, success \in BOOLEAN :
          RecordDetectorPerformance(d, success)
    \/ \E success \in BOOLEAN : RecordRefinementAttempt(success)
    \/ GetSystemHealthScoreCall

\* C30: whatever record_* calls were made, the health score returned lies
\* between 0 and 1 inclusive.
C30_HealthScoreWithinUnitInterval ==
    metHealth # NoValue =>
        /\ 0 <= metHealth.score[1]
        /\ metHealth.score[1] <= metHealth.score[2]

\* the points of a metric among the first k points recorded
PointsOf(name, k) == {i \in 1..k : metRecent[i].name = name}

RECURSIVE SumValues(_)
SumValues(I) ==
    IF I = {} THEN 0
    ELSE LET i == CHOOSE x \in I : TRUE
         IN metRecent[i].value + SumValues(I \ {i})

\* every completion recorded so far was preceded by its own start
EveryCompletionHasItsStart ==
    /\ metStats.passed_verifications + metStats.failed_verifications
           = Cardinality(PointsOf("verification_processing_time", Len(metRecent)))
    /\ \A k \in 1..Len(metRecent) :
           Cardinality(PointsOf("verification_processing_time", k))
               <= Cardinality(PointsOf("verification_started", k))

\* C39: after starts and completions in which every completion is preceded
\* by its start, average_processing_time is the arithmetic mean of the
\* processing times of the completions recorded so far.
C39_AverageIsMeanOfCompletions ==
    LET done == PointsOf("verification_processing_time", Len(metRecent)) IN
    (metState = "RUNNING" /\ EveryCompletionHasItsStart /\ done # {}) =>
        metStats.average_processing_time[1] * Cardinality(done)
            = SumValues(done) * metStats.average_processing_time[2]

(***************************************************************************)
(* ALERTS: _emit_metric for one metric that has an alert threshold.  Time  *)
(* is counted in minutes.  alertEmitted is recent_metrics[name] together   *)
(* with whether handle_alert was called for the point.                     *)
(***************************************************************************)
VARIABLES
    alertState,      \* "NONE" | "RUNNING"
    alertThreshold,  \* the AlertThreshold of the metric
    alertCount,      \* alert_state[name]['consecutive_breaches']
    alertLast,       \* alert_state[name]['last_alert'], -1 when unset
    alertNow,        \* datetime.utcnow()
    alertEmitted     \* the points emitted so far

alertVars == <<alertState, alertThreshold, alertCount, alertLast, alertNow,
               alertEmitted>>

MaxEmits == 4
MaxTime == 4

WarningThreshold == 5
MetricValues == {4, 5, 6}
Comparisons == {"greater_than", "less_than", "equal"}
BreachCounts == {1, 2}
CooldownMinutes == {2}

IdleThreshold ==
    [comparison |-> "greater_than", consecutive_breaches |-> 1,
     cooldown_minutes |-> 2]

AlertIdle ==
    /\ alertState = "NONE"
    /\ alertThreshold = IdleThreshold
    /\ alertCount = 0
    /\ alertLast = -1
    /\ alertNow = 0
    /\ alertEmitted = <<>>

\* a collector to which the threshold was added, before any point
AlertSubmitted ==
    /\ alertState = "RUNNING"
    /\ alertThreshold \in [comparison : Comparisons,
                           consecutive_breaches : BreachCounts,
                           cooldown_minutes : CooldownMinutes]
    /\ alertCount = 0
    /\ alertLast = -1
    /\ alertNow = 0
    /\ alertEmitted = <<>>

\* _is_threshold_breached
IsThresholdBreached(value, threshold) ==
    IF threshold.comparison = "greater_than" THEN value > WarningThreshold
    ELSE IF threshold.comparison = "less_than" THEN value < WarningThreshold
    ELSE IF threshold.comparison = "equal" THEN value = WarningThreshold
    ELSE FALSE

\* _should_send_alert
ShouldSendAlertMut(last, now, threshold) == TRUE

ShouldSendAlert(last, now, threshold) ==
    IF last = -1 THEN TRUE
    ELSE now - last > threshold.cooldown_minutes

\* _emit_metric: the point is appended to recent_metrics, then
\* _check_alerts updates the consecutive count and, when the conditions
\* hold, calls the alert handlers and sets last_alert.
EmitMetric(value) ==
    /\ alertState = "RUNNING"
    /\ Len(alertEmitted) < MaxEmits
    /\ LET breached == IsThresholdBreached(value, alertThreshold)
           count == IF breached THEN alertCount + 1 ELSE 0
           send == /\ count >= alertThreshold.consecutive_breaches
                   /\ ShouldSendAlert(alertLast, alertNow, alertThreshold)
       IN /\ alertCount' = count
          /\ alertLast' = IF send THEN alertNow ELSE alertLast
          /\ alertEmitted' = Append(alertEmitted,
                 [value |-> value, time |-> alertNow, alerted |-> send])
    /\ UNCHANGED <<alertState, alertThreshold, alertNow>>

\* a minute passes
MinutePasses ==
    /\ alertState = "RUNNING"
    /\ alertNow < MaxTime
    /\ alertNow' = alertNow + 1
    /\ UNCHANGED <<alertState, alertThreshold, alertCount, alertLast,
                   alertEmitted>>

AlertNext ==
    \/ \E value \in MetricValues : EmitMetric(value)
    \/ MinutePasses

\* the point breaches the warning threshold, read off the comparison
Breaches(p) ==
    \/ alertThreshold.comparison = "greater_than" /\ p.value > WarningThreshold
    \/ alertThreshold.comparison = "less_than" /\ p.value < WarningThreshold
    \/ alertThreshold.comparison = "equal" /\ p.value = WarningThreshold

\* the number of consecutive breaching points that end with point k
RunEndingAt(k) ==
    Cardinality({j \in 1..k : \A i \in j..k : Breaches(alertEmitted[i])})

\* an alert was sent for an earlier point within the cooldown before point k
AlertedWithinCooldown(k) ==
    \E j \in 1..(k - 1) :
        /\ alertEmitted[j].alerted
        /\ alertEmitted[k].time - alertEmitted[j].time
               <= alertThreshold.cooldown_minutes

\* C31: an alert is sent for a point exactly when the run of consecutive
\* breaching points ending with it has reached consecutive_breaches and no
\* alert was sent within the cooldown before it; the consecutive count kept
\* is the length of the run of breaching points ending with the last point,
\* so a non-breaching point resets it to zero.
C31_AlertIffBreachRunAndCooldown ==
    /\ \A k \in 1..Len(alertEmitted) :
          alertEmitted[k].alerted <=>
              /\ RunEndingAt(k) >= alertThreshold.consecutive_breaches
              /\ ~AlertedWithinCooldown(k)
    /\ alertCount = RunEndingAt(Len(alertEmitted))

C31_Witness ==
    /\ alertThreshold.consecutive_breaches = 2
    /\ alertThreshold.comparison = "greater_than"
    /\ Len(alertEmitted) = 4
    /\ alertEmitted[1].value = 6 /\ ~alertEmitted[1].alerted
    /\ alertEmitted[2].value = 6 /\ alertEmitted[2].alerted
    /\ alertEmitted[3].value = 6 /\ ~alertEmitted[3].alerted
    /\ alertEmitted[4].value = 6 /\ alertEmitted[4].alerted

(***************************************************************************)
(* PREPROCESSING PIPELINE: PreprocessingPipeline(config).process(text).    *)
(* A text is described by whether it is empty, whether it has repeated     *)
(* punctuation (',,,') and whether it has irregular whitespace.            *)
(***************************************************************************)
VARIABLES
    pipeState,   \* "NONE" | "CALLED" | "BUILT" | "RAISED" | "DONE"
    pipeConfig,  \* stages, stage_order, and whether the other keys are there
    pipeIn,      \* the text given to process
    pipeOut      \* the ProcessingResult, or the exception of the constructor

pipeVars == <<pipeState, pipeConfig, pipeIn, pipeOut>>

StageNames == {"whitespace_normalization", "punctuation_handling",
               "structural_analysis"}

\* stage_order: the stage names, each at most once, in any order
StageOrders ==
    {o \in UNION {[1..n -> StageNames] : n \in 0..Cardinality(StageNames)} :
        \A i, j \in 1..Len(o) : o[i] = o[j] => i = j}

PipeTexts == [empty : {TRUE}, commas : {FALSE}, spaces : {FALSE}]
                 \cup [empty : {FALSE}, commas : BOOLEAN, spaces : BOOLEAN]

\* has_other_keys: the configuration holds log_level, the stage configs,
\* stop_on_error and max_errors (the constructor does not merge a given
\* configuration with the defaults)
PipeConfigs ==
    [stages : [StageNames -> BOOLEAN], stage_order : StageOrders,
     has_other_keys : BOOLEAN]

DefaultConfig ==
    [stages |-> [s \in StageNames |-> TRUE],
     stage_order |-> <<"whitespace_normalization", "punctuation_handling",
                       "structural_analysis">>,
     has_other_keys |-> TRUE]

EmptyStats == [stages_completed |-> <<>>, stages_skipped |-> <<>>]

NoResult == [status |-> "none", text |-> [empty |-> TRUE, commas |-> FALSE,
                                          spaces |-> FALSE],
             stats |-> EmptyStats]

PipeIdle ==
    /\ pipeState = "NONE"
    /\ pipeConfig = DefaultConfig
    /\ pipeIn = [empty |-> TRUE, commas |-> FALSE, spaces |-> FALSE]
    /\ pipeOut = NoResult

PipeSubmitted ==
    /\ pipeState = "CALLED"
    /\ pipeConfig \in PipeConfigs
    /\ pipeIn \in PipeTexts
    /\ pipeOut = NoResult

\* __init__: _setup_logging reads config['log_level'], and
\* _initialize_components and _validate_config run on the given dictionary
PipelineInit ==
    /\ pipeState = "CALLED"
    /\ IF pipeConfig.has_other_keys
       THEN /\ pipeState' = "BUILT"
            /\ UNCHANGED pipeOut
       ELSE /\ pipeState' = "RAISED"
            /\ pipeOut' = [NoResult EXCEPT !.status = "KeyError"]
    /\ UNCHANGED <<pipeConfig, pipeIn>>

\* the text after a stage that is applied
ApplyStage(stage, t) ==
    IF stage = "whitespace_normalization" THEN [t EXCEPT !.spaces = FALSE]
    ELSE IF stage = "punctuation_handling" THEN [t EXCEPT !.commas = FALSE]
    ELSE t

\* the loop of process over stage_order[k..]: _process_<stage> records a
\* disabled stage as skipped and an enabled one as completed
RECURSIVE RunStages(_, _, _, _)
RunStages(config, k, t, stats) ==
    IF k > Len(config.stage_order) THEN [text |-> t, stats |-> stats]
    ELSE LET stage == config.stage_order[k] IN
         IF config.stages[stage]
         THEN RunStages(config, k + 1, ApplyStage(stage, t),
                        [stats EXCEPT !.stages_completed = Append(@, stage)])
         ELSE RunStages(config, k + 1, t,
                        [stats EXCEPT !.stages_skipped = Append(@, stage)])

\* process
Process(config, t) ==
    IF t.empty THEN [status |-> "ok", text |-> t, stats |-> EmptyStats]
    ELSE LET r == RunStages(config, 1, t, EmptyStats)
         IN [status |-> "ok", text |-> r.text, stats |-> r.stats]

ProcessCall ==
    /\ pipeState = "BUILT"
    /\ pipeOut' = Process(pipeConfig, pipeIn)
    /\ pipeState' = "DONE"
    /\ UNCHANGED <<pipeConfig, pipeIn>>

PipeNext ==
    \/ PipelineInit
    \/ ProcessCall

Members(seq) == {seq[i] : i \in 1..Len(seq)}

\* C32: after process of a non-empty text, every stage disabled in
\* config['stages'] is in stats.stages_skipped and has left the text as it
\* was, and every enabled stage is in stats.stages_completed.
C32_DisabledStagesSkippedAndRecorded ==
    (pipeState = "DONE" /\ ~pipeIn.empty) =>
        \A stage \in StageNames :
            IF pipeConfig.stages[stage]
            THEN stage \in Members(pipeOut.stats.stages_completed)
            ELSE /\ stage \in Members(pipeOut.stats.stages_skipped)
                 /\ stage = "punctuation_handling" =>
                       pipeOut.text.commas = pipeIn.commas
                 /\ stage = "whitespace_normalization" =>
                       pipeOut.text.spaces = pipeIn.spaces

(***************************************************************************)
(* AGGREGATION IN FLOATING POINT: the aggregate fields of                  *)
(* _create_verification_report computed with binary floating-point         *)
(* arithmetic, round to nearest, ties to even.  A float is an integer      *)
(* count of units of 2^-FloatScale; the mantissa has MantissaBits bits     *)
(* (53 in the interpreter, reduced here to fit TLC's integers).    *)
(***************************************************************************)
VARIABLES
    aggState,   \* "NONE" | "CALLED" | "DONE"
    aggScores,  \* ai_probability of the error-free scores, as listed
    aggOut      \* ai_probability_avg, overall_result, overall_confidence

aggVars == <<aggState, aggScores, aggOut>>

MaxAggScores == 3
MantissaBits == 8
FloatScale == 12

\* ai_probability values, in hundredths
FloatProbs == {5, 10, 75, 100}

NoAggregate == [avg |-> 0, overall_result |-> "none", overall_confidence |-> "none"]

AggIdle ==
    /\ aggState = "NONE"
    /\ aggScores = <<>>
    /\ aggOut = NoAggregate

AggSubmitted ==
    /\ aggState = "CALLED"
    /\ aggScores \in UNION {[1..n -> FloatProbs] : n \in 1..MaxAggScores}
    /\ aggOut = NoAggregate

\* the float nearest to num / den (in units), ties to the even mantissa
FloatRound(num, den) ==
    IF num = 0 THEN 0
    ELSE LET k == CHOOSE e \in 0..(2 * FloatScale + 4) :
                      /\ Pow2(e) * den <= num
                      /\ Pow2(e + 1) * den > num
             q == IF k - MantissaBits + 1 > 0 THEN Pow2(k - MantissaBits + 1) ELSE 1
             t == num \div (den * q)
             r == num % (den * q)
         IN IF 2 * r > den * q \/ (2 * r = den * q /\ t % 2 = 1)
            THEN (t + 1) * q
            ELSE t * q

\* the float of a decimal literal given in hundredths
FloatOf(hundredths) == FloatRound(hundredths * Pow2(FloatScale), 100)

\* sum(score.ai_probability for score in valid_scores): left to right
RECURSIVE FloatSum(_, _)
FloatSum(ps, acc) ==
    IF ps = <<>> THEN acc
    ELSE FloatSum(Tail(ps), FloatRound(acc + FloatOf(Head(ps)), 1))

\* sum((score.ai_probability - avg) ** 2 for score in scores)
RECURSIVE FloatSumSqDev(_, _, _)
FloatSumSqDev(ps, avg, acc) ==
    IF ps = <<>> THEN acc
    ELSE LET d == IF FloatOf(Head(ps)) >= avg THEN FloatOf(Head(ps)) - avg
                  ELSE avg - FloatOf(Head(ps))
             sq == FloatRound(FloatRound(d, 1) * FloatRound(d, 1), Pow2(FloatScale))
         IN FloatSumSqDev(Tail(ps), avg, FloatRound(acc + sq, 1))

FloatConfidence(ps, avg) ==
    IF Len(ps) < 2 THEN "low"
    ELSE LET v == FloatRound(FloatSumSqDev(ps, avg, 0), Len(ps)) IN
         IF v < FloatOf(5) THEN "very_high"
         ELSE IF v < FloatOf(10) THEN "high"
         ELSE IF v < FloatOf(20) THEN "medium"
         ELSE IF v < FloatOf(30) THEN "low"
         ELSE "very_low"

\* ai_probability_avg, overall_result and overall_confidence of
\* _create_verification_report for the valid scores ps
FloatAggregate(ps) ==
    LET avg == FloatRound(FloatSum(ps, 0), Len(ps))
        low == FloatRound(FloatOf(AiProbabilityThreshold) - FloatOf(20), 1)
        high == FloatRound(FloatOf(AiProbabilityThreshold) + FloatOf(20), 1)
    IN [avg |-> avg,
        overall_result |-> IF avg < low THEN "human"
                           ELSE IF avg > high THEN "ai_generated"
                           ELSE "uncertain",
        overall_confidence |-> FloatConfidence(ps, avg)]

CreateReportCall ==
    /\ aggState = "CALLED"
    /\ aggOut' = FloatAggregate(aggScores)
    /\ aggState' = "DONE"
    /\ UNCHANGED aggScores

AggNext == CreateReportCall

\* the scores listed in the order given by the permutation p
Reordered(ps, p) == [i \in 1..Len(ps) |-> ps[p[i]]]

\* C36: the aggregate fields are the same for every order in which the
\* same scores are listed.
C36_AggregateIndependentOfOrder ==
    aggState = "DONE" =>
        \A p \in Permutations(1..Len(aggScores)) :
            FloatAggregate(Reordered(aggScores, p)) = aggOut

(***************************************************************************)
(* VERIFICATION TASK: verification_task of the Stage 3 worker, which       *)
(* imports the Stage 4 detector service at call time.                      *)
(***************************************************************************)
VARIABLES
    vtState,    \* "NONE" | "CALLED" | "DONE"
    vtText,     \* humanized_result["humanized_text"]: "missing" | "blank" | "text"
    vtImport,   \* the import of the Stage 4 components: "import_error" | "imported"
    vtDetect,   \* detector_service.verify_text: "report" | "raises"
    vtOut       \* what the task returns or raises

vtVars == <<vtState, vtText, vtImport, vtDetect, vtOut>>

NoVerification ==
    [raised |-> FALSE, verification_status |-> "none", passed_verification |-> FALSE,
     recommendation |-> "none", detectors_successful |-> 0]

VtIdle ==
    /\ vtState = "NONE"
    /\ vtText = "missing"
    /\ vtImport = "import_error"
    /\ vtDetect = "raises"
    /\ vtOut = NoVerification

\* services.detector_service imports `..detectors` relative to a top-level
\* package and models.detection_models is not in the repository, so the
\* import raises ImportError; "imported" is a deployment that supplies both
VtSubmitted ==
    /\ vtState = "CALLED"
    /\ vtText \in {"missing", "blank", "text"}
    /\ vtImport \in {"import_error", "imported"}
    /\ vtDetect \in {"report", "raises"}
    /\ vtOut = NoVerification

\* the result of the `except ImportError` branch
FallbackResult ==
    [raised |-> FALSE, verification_status |-> "completed", passed_verification |-> TRUE,
     recommendation |-> "ACCEPT", detectors_successful |-> 0]

\* the result of the outer `except Exception` branch
ErrorResult ==
    [raised |-> FALSE, verification_status |-> "error", passed_verification |-> FALSE,
     recommendation |-> "NEEDS_REFINEMENT", detectors_successful |-> 0]

\* verification_task: blank text raises ValueError inside the try; a failed
\* import takes the fallback; a report of the detector service is read
\* through detector_results, overall_ai_probability and recommendation,
\* which VerificationReport does not have (AttributeError)
VerificationTask(text, import, detect) ==
    IF text \in {"missing", "blank"} THEN ErrorResult
    ELSE IF import = "import_error" THEN FallbackResult
    ELSE ErrorResult

VerificationTaskCall ==
    /\ vtState = "CALLED"
    /\ vtOut' = VerificationTask(vtText, vtImport, vtDetect)
    /\ vtState' = "DONE"
    /\ UNCHANGED <<vtText, vtImport, vtDetect>>

VtNext == VerificationTaskCall

RealDetectorsRan == vtText = "text" /\ vtImport = "imported" /\ vtDetect = "report"

\* C38: verification_task never raises; whenever verification cannot be
\* carried out (no text, detector service unavailable or failing) the result
\* has passed_verification false and recommendation NEEDS_REFINEMENT; and
\* passed_verification is true only when real detectors ran and the
\* recommendation is ACCEPT.
C38_VerificationFailsSafe ==
    vtState = "DONE" =>
        /\ ~vtOut.raised
        /\ ~RealDetectorsRan =>
              /\ ~vtOut.passed_verification
              /\ vtOut.recommendation = "NEEDS_REFINEMENT"
        /\ vtOut.passed_verification =>
              /\ RealDetectorsRan
              /\ vtOut.recommendation = "ACCEPT"

vars == <<chunkVars, mergeVars, detVars, cancelVars, orchVars, refVars,
         jobVars, classifyVars, fanVars, contVars, svcVars, postVars,
         delayVars, estVars, metVars, alertVars, pipeVars, aggVars, vtVars>>

Init ==
    \/ ChunkSubmitted /\ MergeIdle /\ DetIdle /\ CancelIdle /\ OrchIdle /\ RefIdle /\ JobIdle /\ ClassifyIdle /\ FanIdle /\ ContIdle /\ SvcIdle /\ PostIdle /\ DelayIdle /\ EstIdle /\ MetIdle /\ AlertIdle /\ PipeIdle /\ AggIdle /\ VtIdle
    \/ ChunkIdle /\ MergeSubmitted /\ DetIdle /\ CancelIdle /\ OrchIdle /\ RefIdle /\ JobIdle /\ ClassifyIdle /\ FanIdle /\ ContIdle /\ SvcIdle /\ PostIdle /\ DelayIdle /\ EstIdle /\ MetIdle /\ AlertIdle /\ PipeIdle /\ AggIdle /\ VtIdle
    \/ ChunkIdle /\ MergeIdle /\ DetSubmitted /\ CancelIdle /\ OrchIdle /\ RefIdle /\ JobIdle /\ ClassifyIdle /\ FanIdle /\ ContIdle /\ SvcIdle /\ PostIdle /\ DelayIdle /\ EstIdle /\ MetIdle /\ AlertIdle /\ PipeIdle /\ AggIdle /\ VtIdle
    \/ ChunkIdle /\ MergeIdle /\ DetIdle /\ CancelSubmitted /\ OrchIdle /\ RefIdle /\ JobIdle /\ ClassifyIdle /\ FanIdle /\ ContIdle /\ SvcIdle /\ PostIdle /\ DelayIdle /\ EstIdle /\ MetIdle /\ AlertIdle /\ PipeIdle /\ AggIdle /\ VtIdle
    \/ ChunkIdle /\ MergeIdle /\ DetIdle /\ CancelIdle /\ OrchSubmitted /\ RefIdle /\ JobIdle /\ ClassifyIdle /\ FanIdle /\ ContIdle /\ SvcIdle /\ PostIdle /\ DelayIdle /\ EstIdle /\ MetIdle /\ AlertIdle /\ PipeIdle /\ AggIdle /\ VtIdle
    \/ ChunkIdle /\ MergeIdle /\ DetIdle /\ CancelIdle /\ OrchIdle /\ RefSubmitted /\ JobIdle /\ ClassifyIdle /\ FanIdle /\ ContIdle /\ SvcIdle /\ PostIdle /\ DelayIdle /\ EstIdle /\ MetIdle /\ AlertIdle /\ PipeIdle /\ AggIdle /\ VtIdle
    \/ ChunkIdle /\ MergeIdle /\ DetIdle /\ CancelIdle /\ OrchIdle /\ RefIdle /\ JobSubmitted /\ ClassifyIdle /\ FanIdle /\ ContIdle /\ SvcIdle /\ PostIdle /\ DelayIdle /\ EstIdle /\ MetIdle /\ AlertIdle /\ PipeIdle /\ AggIdle /\ VtIdle
    \/ ChunkIdle /\ MergeIdle /\ DetIdle /\ CancelIdle /\ OrchIdle /\ RefIdle /\ JobIdle /\ ClassifySubmitted /\ FanIdle /\ ContIdle /\ SvcIdle /\ PostIdle /\ DelayIdle /\ EstIdle /\ MetIdle /\ AlertIdle /\ PipeIdle /\ AggIdle /\ VtIdle
    \/ ChunkIdle /\ MergeIdle /\ DetIdle /\ CancelIdle /\ OrchIdle /\ RefIdle /\ JobIdle /\ ClassifyIdle /\ FanSubmitted /\ ContIdle /\ SvcIdle /\ PostIdle /\ DelayIdle /\ EstIdle /\ MetIdle /\ AlertIdle /\ PipeIdle /\ AggIdle /\ VtIdle
    \/ ChunkIdle /\ MergeIdle /\ DetIdle /\ CancelIdle /\ OrchIdle /\ RefIdle /\ JobIdle /\ ClassifyIdle /\ FanIdle /\ ContSubmitted /\ SvcIdle /\ PostIdle /\ DelayIdle /\ EstIdle /\ MetIdle /\ AlertIdle /\ PipeIdle /\ AggIdle /\ VtIdle
    \/ ChunkIdle /\ MergeIdle /\ DetIdle /\ CancelIdle /\ OrchIdle /\ RefIdle /\ JobIdle /\ ClassifyIdle /\ FanIdle /\ ContIdle /\ SvcSubmitted /\ PostIdle /\ DelayIdle /\ EstIdle /\ MetIdle /\ AlertIdle /\ PipeIdle /\ AggIdle /\ VtIdle
    \/ ChunkIdle /\ MergeIdle /\ DetIdle /\ CancelIdle /\ OrchIdle /\ RefIdle /\ JobIdle /\ ClassifyIdle /\ FanIdle /\ ContIdle /\ SvcIdle /\ PostSubmitted /\ DelayIdle /\ EstIdle /\ MetIdle /\ AlertIdle /\ PipeIdle /\ AggIdle /\ VtIdle
    \/ ChunkIdle /\ MergeIdle /\ DetIdle /\ CancelIdle /\ OrchIdle /\ RefIdle /\ JobIdle /\ ClassifyIdle /\ FanIdle /\ ContIdle /\ SvcIdle /\ PostIdle /\ DelaySubmitted /\ EstIdle /\ MetIdle /\ AlertIdle /\ PipeIdle /\ AggIdle /\ VtIdle
    \/ ChunkIdle /\ MergeIdle /\ DetIdle /\ CancelIdle /\ OrchIdle /\ RefIdle /\ JobIdle /\ ClassifyIdle /\ FanIdle /\ ContIdle /\ SvcIdle /\ PostIdle /\ DelayIdle /\ EstSubmitted /\ MetIdle /\ AlertIdle /\ PipeIdle /\ AggIdle /\ VtIdle
    \/ ChunkIdle /\ MergeIdle /\ DetIdle /\ CancelIdle /\ OrchIdle /\ RefIdle /\ JobIdle /\ ClassifyIdle /\ FanIdle /\ ContIdle /\ SvcIdle /\ PostIdle /\ DelayIdle /\ EstIdle /\ MetSubmitted /\ AlertIdle /\ PipeIdle /\ AggIdle /\ VtIdle
    \/ ChunkIdle /\ MergeIdle /\ DetIdle /\ CancelIdle /\ OrchIdle /\ RefIdle /\ JobIdle /\ ClassifyIdle /\ FanIdle /\ ContIdle /\ SvcIdle /\ PostIdle /\ DelayIdle /\ EstIdle /\ MetIdle /\ AlertSubmitted /\ PipeIdle /\ AggIdle /\ VtIdle
    \/ ChunkIdle /\ MergeIdle /\ DetIdle /\ CancelIdle /\ OrchIdle /\ RefIdle /\ JobIdle /\ ClassifyIdle /\ FanIdle /\ ContIdle /\ SvcIdle /\ PostIdle /\ DelayIdle /\ EstIdle /\ MetIdle /\ AlertIdle /\ PipeSubmitted /\ AggIdle /\ VtIdle
    \/ ChunkIdle /\ MergeIdle /\ DetIdle /\ CancelIdle /\ OrchIdle /\ RefIdle /\ JobIdle /\ ClassifyIdle /\ FanIdle /\ ContIdle /\ SvcIdle /\ PostIdle /\ DelayIdle /\ EstIdle /\ MetIdle /\ AlertIdle /\ PipeIdle /\ AggSubmitted /\ VtIdle
    \/ ChunkIdle /\ MergeIdle /\ DetIdle /\ CancelIdle /\ OrchIdle /\ RefIdle /\ JobIdle /\ ClassifyIdle /\ FanIdle /\ ContIdle /\ SvcIdle /\ PostIdle /\ DelayIdle /\ EstIdle /\ MetIdle /\ AlertIdle /\ PipeIdle /\ AggIdle /\ VtSubmitted

Next ==
    \/ ChunkNext /\ UNCHANGED <<mergeVars, detVars, cancelVars, orchVars, refVars, jobVars, classifyVars, fanVars, contVars, svcVars, postVars, delayVars, estVars, metVars, alertVars, pipeVars, aggVars, vtVars>>
    \/ MergeNext /\ UNCHANGED <<chunkVars, detVars, cancelVars, orchVars, refVars, jobVars, classifyVars, fanVars, contVars, svcVars, postVars, delayVars, estVars, metVars, alertVars, pipeVars, aggVars, vtVars>>
    \/ DetNext /\ UNCHANGED <<chunkVars, mergeVars, cancelVars, orchVars, refVars, jobVars, classifyVars, fanVars, contVars, svcVars, postVars, delayVars, estVars, metVars, alertVars, pipeVars, aggVars, vtVars>>
    \/ CancelNext /\ UNCHANGED <<chunkVars, mergeVars, detVars, orchVars, refVars, jobVars, classifyVars, fanVars, contVars, svcVars, postVars, delayVars, estVars, metVars, alertVars, pipeVars, aggVars, vtVars>>
    \/ OrchNext /\ UNCHANGED <<chunkVars, mergeVars, detVars, cancelVars, refVars, jobVars, classifyVars, fanVars, contVars, svcVars, postVars, delayVars, estVars, metVars, alertVars, pipeVars, aggVars, vtVars>>
    \/ RefNext /\ UNCHANGED <<chunkVars, mergeVars, detVars, cancelVars, orchVars, jobVars, classifyVars, fanVars, contVars, svcVars, postVars, delayVars, estVars, metVars, alertVars, pipeVars, aggVars, vtVars>>
    \/ JobNext /\ UNCHANGED <<chunkVars, mergeVars, detVars, cancelVars, orchVars, refVars, classifyVars, fanVars, contVars, svcVars, postVars, delayVars, estVars, metVars, alertVars, pipeVars, aggVars, vtVars>>
    \/ ClassifyNext /\ UNCHANGED <<chunkVars, mergeVars, detVars, cancelVars, orchVars, refVars, jobVars, fanVars, contVars, svcVars, postVars, delayVars, estVars, metVars, alertVars, pipeVars, aggVars, vtVars>>
    \/ FanNext /\ UNCHANGED <<chunkVars, mergeVars, detVars, cancelVars, orchVars, refVars, jobVars, classifyVars, contVars, svcVars, postVars, delayVars, estVars, metVars, alertVars, pipeVars, aggVars, vtVars>>
    \/ ContNext /\ UNCHANGED <<chunkVars, mergeVars, detVars, cancelVars, orchVars, refVars, jobVars, classifyVars, fanVars, svcVars, postVars, delayVars, estVars, metVars, alertVars, pipeVars, aggVars, vtVars>>
    \/ SvcNext /\ UNCHANGED <<chunkVars, mergeVars, detVars, cancelVars, orchVars, refVars, jobVars, classifyVars, fanVars, contVars, postVars, delayVars, estVars, metVars, alertVars, pipeVars, aggVars, vtVars>>
    \/ PostNext /\ UNCHANGED <<chunkVars, mergeVars, detVars, cancelVars, orchVars, refVars, jobVars, classifyVars, fanVars, contVars, svcVars, delayVars, estVars, metVars, alertVars, pipeVars, aggVars, vtVars>>
    \/ DelayNext /\ UNCHANGED <<chunkVars, mergeVars, detVars, cancelVars, orchVars, refVars, jobVars, classifyVars, fanVars, contVars, svcVars, postVars, estVars, metVars, alertVars, pipeVars, aggVars, vtVars>>
    \/ EstNext /\ UNCHANGED <<chunkVars, mergeVars, detVars, cancelVars, orchVars, refVars, jobVars, classifyVars, fanVars, contVars, svcVars, postVars, delayVars, metVars, alertVars, pipeVars, aggVars, vtVars>>
    \/ MetNext /\ UNCHANGED <<chunkVars, mergeVars, detVars, cancelVars, orchVars, refVars, jobVars, classifyVars, fanVars, contVars, svcVars, postVars, delayVars, estVars, alertVars, pipeVars, aggVars, vtVars>>
    \/ AlertNext /\ UNCHANGED <<chunkVars, mergeVars, detVars, cancelVars, orchVars, refVars, jobVars, classifyVars, fanVars, contVars, svcVars, postVars, delayVars, estVars, metVars, pipeVars, aggVars, vtVars>>
    \/ PipeNext /\ UNCHANGED <<chunkVars, mergeVars, detVars, cancelVars, orchVars, refVars, jobVars, classifyVars, fanVars, contVars, svcVars, postVars, delayVars, estVars, metVars, alertVars, aggVars, vtVars>>
    \/ AggNext /\ UNCHANGED <<chunkVars, mergeVars, detVars, cancelVars, orchVars, refVars, jobVars, classifyVars, fanVars, contVars, svcVars, postVars, delayVars, estVars, metVars, alertVars, pipeVars, vtVars>>
    \/ VtNext /\ UNCHANGED <<chunkVars, mergeVars, detVars, cancelVars, orchVars, refVars, jobVars, classifyVars, fanVars, contVars, svcVars, postVars, delayVars, estVars, metVars, alertVars, pipeVars, aggVars>>

Spec == Init /\ [][Next]_vars

\* a step of the detector ensemble
DetStep == DetNext /\ UNCHANGED <<chunkVars, mergeVars, cancelVars, orchVars, refVars, jobVars, classifyVars, fanVars, contVars, svcVars, postVars, delayVars, estVars, metVars, alertVars, pipeVars, aggVars, vtVars>>

\* The event loop runs every task that is ready and fires every timer that
\* is due as long as the loop thread is not held by a call.
LiveSpec == Init /\ [][Next]_vars /\ WF_vars(DetStep)

====
